---- MODULE Spec2Model ----
(***************************************************************************)
(* A model of the food-ordering backend: the order routes                  *)
(* (src/routes/orderRoutes.js), the stock method of the food item model    *)
(* (src/models/Category.js), the address controller                        *)
(* (src/controllers/Addresscontroller.js), the offer routes                *)
(* (src/routes/offer.js), their helper calculateItemDiscount               *)
(* (src/unnamed/part_002) and the auth routes (src/routes/auth.js).        *)
(* Where two requests run concurrently, a handler is split into the steps  *)
(* between its awaits.                                                     *)
(*                                                                         *)
(* Money is counted in cents.  Every catalog price and every price a       *)
(* request carries is a multiple of 10 cents, so the 10% coupon discount   *)
(* (subtotal * 0.1) is a whole number of cents.  Request bodies are        *)
(* well-typed JSON: numeric fields arrive as numbers.                      *)
(* An optional value (undefined / null in the source) is a sequence of     *)
(* length 0 or 1.  A collection whose documents are found by id is a       *)
(* function from the ids in use to the documents.                          *)
(***************************************************************************)
EXTENDS Integers, Sequences, FiniteSets, TLC

VARIABLES foodItems, orders, now, posts, ledger, resp, req, addresses, nextAddressId, offers,
          users, tokens, verified, tasks

vars == <<foodItems, orders, now, posts, ledger, resp, req, addresses, nextAddressId, offers,
         users, tokens, verified, tasks>>
orderVars == <<foodItems, orders, now, posts, ledger>>
addressVars == <<addresses, nextAddressId>>
authVars == <<users, tokens, verified>>

(***************************************************************************)
(* Bounds of the model.                                                    *)
(***************************************************************************)
MaxPosts == 2
MaxClock == 3
MaxAddresses == 3

Undefined == <<>>
Some(x) == <<x>>
IsDefined(opt) == opt # <<>>
\* JavaScript's  x || 0  on an optional number
OrZero(opt) == IF opt = <<>> THEN 0 ELSE opt[1]
\* JavaScript truthiness of an optional number
Truthy(opt) == IsDefined(opt) /\ opt[1] # 0

RECURSIVE SumSeq(_)
SumSeq(s) == IF s = <<>> THEN 0 ELSE s[1] + SumSeq(Tail(s))

RECURSIVE SeqMap(_, _)
SeqMap(Op(_), s) == IF s = <<>> THEN <<>> ELSE <<Op(s[1])>> \o SeqMap(Op, Tail(s))

(***************************************************************************)
(* Callers.  req.user is set by the auth middleware.                       *)
(***************************************************************************)
Customers == { [id |-> "u1", role |-> "user"], [id |-> "u2", role |-> "user"] }
Staff == { [id |-> "a1", role |-> "admin"], [id |-> "m1", role |-> "manager"] }
Callers == Customers \cup Staff

ItemIds == {"f1", "f2"}
\* an id that resolves to no food item
MissingItemId == "f9"

OrderStatuses ==
  {"pending", "confirmed", "preparing", "ready", "out-for-delivery", "delivered", "cancelled"}

(***************************************************************************)
(* foodItemSchema.methods.updateStock                                      *)
(***************************************************************************)
updateStockNoClamp(foodItem, quantity, operation) ==
  IF operation = "subtract"
    THEN [foodItem EXCEPT !.stockQuantity = @ - quantity, !.totalSold = @ + quantity]
    ELSE [foodItem EXCEPT !.stockQuantity = @ + quantity]

updateStock(foodItem, quantity, operation) ==
  LET changed ==
        IF operation = "subtract"
          THEN [foodItem EXCEPT !.stockQuantity = @ - quantity, !.totalSold = @ + quantity]
          ELSE [foodItem EXCEPT !.stockQuantity = @ + quantity]
  IN  IF changed.stockQuantity < 0
        THEN [changed EXCEPT !.stockQuantity = 0]
        ELSE changed

(***************************************************************************)
(* POST /orders: the price of one line                                     *)
(***************************************************************************)
ExtrasSum(list) == SumSeq(SeqMap(LAMBDA e : OrZero(e.price), list))

UnitPriceNoAddons(foodItem, item) ==
  foodItem.price
    + (IF IsDefined(item.selectedMealSize)
         THEN OrZero(item.selectedMealSize[1].additionalPrice) ELSE 0)
    + (IF IsDefined(item.selectedExtras) THEN ExtrasSum(item.selectedExtras[1]) ELSE 0)

UnitPrice(foodItem, item) ==
  foodItem.price
    + (IF IsDefined(item.selectedMealSize)
         THEN OrZero(item.selectedMealSize[1].additionalPrice) ELSE 0)
    + (IF IsDefined(item.selectedExtras) THEN ExtrasSum(item.selectedExtras[1]) ELSE 0)
    + (IF IsDefined(item.selectedAddons) THEN ExtrasSum(item.selectedAddons[1]) ELSE 0)

ProcessedItem(foodItemId, foodItem, item) ==
  LET unitPrice == UnitPrice(foodItem, item)
  IN  [ foodItem |-> foodItemId,
        quantity |-> item.quantity,
        selectedMealSize |-> item.selectedMealSize,
        selectedExtras |-> IF IsDefined(item.selectedExtras) THEN item.selectedExtras[1] ELSE <<>>,
        selectedAddons |-> IF IsDefined(item.selectedAddons) THEN item.selectedAddons[1] ELSE <<>>,
        unitPrice |-> unitPrice,
        totalPrice |-> unitPrice * item.quantity ]

(***************************************************************************)
(* POST /orders: the loop over the cart.  acc is the loop's state: the     *)
(* food item collection as written so far, the processed lines, the        *)
(* subtotal, and whether the loop returned 400 at some line.               *)
(***************************************************************************)
RECURSIVE ProcessItemsRollingBack(_, _, _)
ProcessItemsRollingBack(items, k, acc) ==
  IF k > Len(items) THEN acc
  ELSE
    LET item == items[k]
        foodItemId == item.foodItem
    IN  IF foodItemId \notin DOMAIN acc.foodItems \/ ~acc.foodItems[foodItemId].isActive
          THEN [acc EXCEPT !.failed = TRUE, !.foodItems = foodItems]
          ELSE
            LET foodItem == acc.foodItems[foodItemId]
                line == ProcessedItem(foodItemId, foodItem, item)
            IN  ProcessItemsRollingBack(items, k + 1,
                  [ foodItems |-> [acc.foodItems EXCEPT
                                     ![foodItemId] = updateStock(foodItem, item.quantity, "subtract")],
                    processedItems |-> Append(acc.processedItems, line),
                    subtotal |-> acc.subtotal + line.totalPrice,
                    failed |-> FALSE ])

RECURSIVE ProcessItems(_, _, _)
ProcessItems(items, k, acc) ==
  IF k > Len(items) THEN acc
  ELSE
    LET item == items[k]
        foodItemId == item.foodItem
    IN  IF foodItemId \notin DOMAIN acc.foodItems \/ ~acc.foodItems[foodItemId].isActive
          THEN [acc EXCEPT !.failed = TRUE]
          ELSE
            LET foodItem == acc.foodItems[foodItemId]
                line == ProcessedItem(foodItemId, foodItem, item)
            IN  ProcessItems(items, k + 1,
                  [ foodItems |-> [acc.foodItems EXCEPT
                                     ![foodItemId] = updateStock(foodItem, item.quantity, "subtract")],
                    processedItems |-> Append(acc.processedItems, line),
                    subtotal |-> acc.subtotal + line.totalPrice,
                    failed |-> FALSE ])

(***************************************************************************)
(* POST /orders: totals                                                    *)
(***************************************************************************)
DeliveryFee(clientDeliveryFee) ==
  IF IsDefined(clientDeliveryFee) THEN clientDeliveryFee[1] ELSE 0

\* taxRate = 0.00
Tax(subtotal) == subtotal * 0

\* discount = subtotal * 0.1 when a coupon code is given
Discount(subtotal, couponCode) ==
  IF IsDefined(couponCode) THEN subtotal \div 10 ELSE 0

OrderTotalNoDiscount(subtotal, deliveryFee, tax, discount) ==
  subtotal + deliveryFee + tax

OrderTotal(subtotal, deliveryFee, tax, discount) ==
  subtotal + deliveryFee + tax - discount

(***************************************************************************)
(* The express-validator chain of POST /orders                             *)
(***************************************************************************)
ValidOrderBody(body) ==
  /\ Len(body.items) >= 1
  /\ \A k \in 1..Len(body.items) : body.items[k].quantity >= 1
  /\ body.deliveryType \in {"delivery", "pickup"}
  /\ body.paymentMethod \in
       {"cash-on-delivery", "cashOnDelivery", "card", "shop", "paypal", "stripe"}
  /\ IsDefined(body.codPaymentType) => body.codPaymentType[1] \in {"cash", "card"}
  /\ IsDefined(body.deliveryFee) => body.deliveryFee[1] >= 0

(***************************************************************************)
(* Responses.  resp is the response of the last request: the route, the    *)
(* HTTP status code, the caller (req.user.id), the order or address the     *)
(* handler loaded (0 when it loaded none) and, for a status update or a    *)
(* cancellation that succeeded, the status the order had before.           *)
(* req is the body (req.body) of the last request, where a property speaks *)
(* of the request; the handlers do not read the variable.                  *)
(***************************************************************************)
Response(route, code, caller, id, was) ==
  [route |-> route, code |-> code, caller |-> caller.id, id |-> id, was |-> was]

(***************************************************************************)
(* ledger is the history the claims about stock speak of, kept beside each *)
(* order: the stock of every food item when the request that created the   *)
(* order arrived, whether no other request has changed any stock since,    *)
(* and how many cancellations of the order have restored stock.            *)
(***************************************************************************)

(***************************************************************************)
(* Order documents.  Order.create stores the fields the route passes and   *)
(* the schema's default status.                                            *)
(***************************************************************************)
PersistedTotalFromClient(total, clientTotal) ==
  IF IsDefined(clientTotal) THEN clientTotal[1] ELSE total

\* orderData.total is the computed total; a client total that differs is only logged
PersistedTotal(total, clientTotal) == total

NewOrder(caller, body, acc) ==
  LET subtotal == acc.subtotal
      deliveryFee == DeliveryFee(body.deliveryFee)
      tax == Tax(subtotal)
      discount == Discount(subtotal, body.couponCode)
  IN  [ userId |-> caller.id,
        items |-> acc.processedItems,
        subtotal |-> subtotal,
        deliveryFee |-> deliveryFee,
        tax |-> tax,
        discount |-> discount,
        couponCode |-> body.couponCode,
        total |-> PersistedTotal(OrderTotal(subtotal, deliveryFee, tax, discount), body.total),
        paymentMethod |-> body.paymentMethod,
        codPaymentType |-> body.codPaymentType,
        deliveryType |-> body.deliveryType,
        deliveryAddress |-> body.deliveryAddress,
        status |-> "pending",
        trackingUpdates |-> 0,
        actualDeliveryTime |-> Undefined,
        cancellation |-> Undefined,
        rating |-> Undefined ]

(***************************************************************************)
(* router.post('/')                                                        *)
(***************************************************************************)
MissingCodPaymentType(body) ==
  /\ body.paymentMethod = "cashOnDelivery" \/ body.paymentMethod = "cash-on-delivery"
  /\ ~IsDefined(body.codPaymentType)

MissingDeliveryAddressUnchecked(body) == FALSE

MissingDeliveryAddress(body) ==
  body.deliveryType = "delivery" /\ ~IsDefined(body.deliveryAddress)

PostOrder(caller, body) ==
  IF ~ValidOrderBody(body)
    THEN /\ resp' = Response("create", 400, caller, 0, "")
         /\ UNCHANGED <<foodItems, orders, now, posts, ledger>>
  ELSE IF MissingCodPaymentType(body)
    THEN /\ resp' = Response("create", 400, caller, 0, "")
         /\ UNCHANGED <<foodItems, orders, now, posts, ledger>>
  ELSE IF MissingDeliveryAddress(body)
    THEN /\ resp' = Response("create", 400, caller, 0, "")
         /\ UNCHANGED <<foodItems, orders, now, posts, ledger>>
  ELSE
    LET acc == ProcessItems(body.items, 1,
                 [ foodItems |-> foodItems, processedItems |-> <<>>,
                   subtotal |-> 0, failed |-> FALSE ])
        touched == [k \in 1..Len(ledger) |->
                      [ledger[k] EXCEPT !.undisturbed = @ /\ acc.foodItems = foodItems]]
    IN  /\ posts < MaxPosts
        /\ posts' = posts + 1
        /\ foodItems' = acc.foodItems
        /\ now' = now
        /\ IF acc.failed
             THEN /\ resp' = Response("create", 400, caller, 0, "")
                  /\ orders' = orders
                  /\ ledger' = touched
             ELSE /\ orders' = Append(orders, NewOrder(caller, body, acc))
                  /\ ledger' = Append(touched,
                                 [ stockBefore |-> [f \in ItemIds |-> foodItems[f].stockQuantity],
                                   undisturbed |-> TRUE,
                                   restored |-> 0 ])
                  /\ resp' = Response("create", 201, caller, Len(orders) + 1, "")

(***************************************************************************)
(* orderSchema.methods.addTrackingUpdate, cancelOrder, addRating           *)
(***************************************************************************)
\* trackingUpdates is the length of the tracking history: no handler reads its entries
addTrackingUpdate(order, status, timestamp) ==
  [order EXCEPT !.status = status, !.trackingUpdates = @ + 1]

cancelOrder(order, reason, cancelledBy) ==
  [order EXCEPT !.status = "cancelled",
                !.cancellation = Some([reason |-> reason, cancelledBy |-> cancelledBy])]

addRating(order, rating) == [order EXCEPT !.rating = Some(rating)]

(***************************************************************************)
(* router.patch('/:id/status')                                             *)
(***************************************************************************)
ActualDeliveryTimeAlways(order, status, timestamp) ==
  IF status = "delivered" THEN Some(timestamp) ELSE order.actualDeliveryTime

ActualDeliveryTime(order, status, timestamp) ==
  IF status = "delivered" /\ ~IsDefined(order.actualDeliveryTime)
    THEN Some(timestamp)
    ELSE order.actualDeliveryTime

PatchStatus(caller, id, status) ==
  IF caller.role \notin {"admin", "manager"}
    THEN /\ resp' = Response("status", 403, caller, 0, "")
         /\ UNCHANGED <<foodItems, orders, now, posts, ledger>>
  ELSE IF status \notin OrderStatuses
    THEN /\ resp' = Response("status", 400, caller, 0, "")
         /\ UNCHANGED <<foodItems, orders, now, posts, ledger>>
  ELSE IF id \notin 1..Len(orders)
    THEN /\ resp' = Response("status", 404, caller, 0, "")
         /\ UNCHANGED <<foodItems, orders, now, posts, ledger>>
  ELSE
    LET tracked == addTrackingUpdate(orders[id], status, now + 1)
    IN  /\ now < MaxClock
        /\ now' = now + 1
        /\ orders' = [orders EXCEPT ![id] =
                        [tracked EXCEPT !.actualDeliveryTime =
                           ActualDeliveryTime(tracked, status, now + 1)]]
        /\ resp' = Response("status", 200, caller, id, orders[id].status)
        /\ UNCHANGED <<foodItems, posts, ledger>>

(***************************************************************************)
(* router.patch('/:id/cancel')                                             *)
(***************************************************************************)
MayCancelAnyone(order, caller) == TRUE

MayCancel(order, caller) ==
  ~(order.userId # caller.id /\ caller.role \notin {"admin", "manager"})

CanBeCancelledAlways(order) == TRUE

CanBeCancelled(order) == order.status \notin {"delivered", "cancelled", "refunded"}

CancelledBy(caller) ==
  IF caller.role = "admin" \/ caller.role = "manager" THEN "admin" ELSE "customer"

RECURSIVE RestoreStock(_, _, _)
RestoreStock(items, k, items0) ==
  IF k > Len(items) THEN items0
  ELSE
    LET foodItemId == items[k].foodItem
    IN  IF foodItemId \in DOMAIN items0
          THEN RestoreStock(items, k + 1,
                 [items0 EXCEPT ![foodItemId] =
                    updateStock(items0[foodItemId], items[k].quantity, "add")])
          ELSE RestoreStock(items, k + 1, items0)

PatchCancel(caller, id, reason) ==
  IF reason = ""
    THEN /\ resp' = Response("cancel", 400, caller, 0, "")
         /\ UNCHANGED <<foodItems, orders, now, posts, ledger>>
  ELSE IF id \notin 1..Len(orders)
    THEN /\ resp' = Response("cancel", 404, caller, 0, "")
         /\ UNCHANGED <<foodItems, orders, now, posts, ledger>>
  ELSE IF ~MayCancel(orders[id], caller)
    THEN /\ resp' = Response("cancel", 403, caller, id, "")
         /\ UNCHANGED <<foodItems, orders, now, posts, ledger>>
  ELSE IF ~CanBeCancelled(orders[id])
    THEN /\ resp' = Response("cancel", 400, caller, id, "")
         /\ UNCHANGED <<foodItems, orders, now, posts, ledger>>
  ELSE
    /\ orders' = [orders EXCEPT ![id] = cancelOrder(@, reason, CancelledBy(caller))]
    /\ foodItems' = RestoreStock(orders[id].items, 1, foodItems)
    /\ ledger' = [k \in 1..Len(ledger) |->
                    IF k = id THEN [ledger[k] EXCEPT !.restored = @ + 1]
                              ELSE [ledger[k] EXCEPT !.undisturbed = FALSE]]
    /\ resp' = Response("cancel", 200, caller, id, orders[id].status)
    /\ UNCHANGED <<now, posts>>

(***************************************************************************)
(* router.post('/:id/rating')                                              *)
(***************************************************************************)
RatingRejectionRepeatable(order, caller) ==
  IF order.userId # caller.id THEN 403
  ELSE IF order.status # "delivered" THEN 400
  ELSE 0

\* the status code the checks of the route answer with, 0 when they all pass
RatingRejection(order, caller) ==
  IF order.userId # caller.id THEN 403
  ELSE IF order.status # "delivered" THEN 400
  ELSE IF IsDefined(order.rating) /\ order.rating[1].overall # 0 THEN 400
  ELSE 0

PostRating(caller, id, rating) ==
  IF ~(rating.overall \in 1..5)
    THEN /\ resp' = Response("rating", 400, caller, 0, "")
         /\ UNCHANGED <<foodItems, orders, now, posts, ledger>>
  ELSE IF id \notin 1..Len(orders)
    THEN /\ resp' = Response("rating", 404, caller, 0, "")
         /\ UNCHANGED <<foodItems, orders, now, posts, ledger>>
  ELSE IF RatingRejection(orders[id], caller) # 0
    THEN /\ resp' = Response("rating", RatingRejection(orders[id], caller), caller, id, "")
         /\ UNCHANGED <<foodItems, orders, now, posts, ledger>>
  ELSE
    /\ orders' = [orders EXCEPT ![id] = addRating(@, rating)]
    /\ resp' = Response("rating", 200, caller, id, "")
    /\ UNCHANGED <<foodItems, now, posts, ledger>>

(***************************************************************************)
(* Catalog administration: an administrator edits the price and the        *)
(* availability of a food item.  Stock counters are not edited.            *)
(***************************************************************************)
EditFoodItemRepricing(caller, foodItemId, price, isActive) ==
  /\ foodItems' = [foodItems EXCEPT ![foodItemId].price = price,
                                    ![foodItemId].isActive = isActive]
  /\ orders' = [i \in DOMAIN orders |->
                  [orders[i] EXCEPT !.items =
                     [k \in DOMAIN orders[i].items |->
                        IF orders[i].items[k].foodItem = foodItemId
                          THEN [orders[i].items[k] EXCEPT !.unitPrice = price]
                          ELSE orders[i].items[k]]]]
  /\ resp' = Response("editFoodItem", 200, caller, 0, "")
  /\ UNCHANGED <<now, posts, ledger>>

EditFoodItem(caller, foodItemId, price, isActive) ==
  /\ foodItems' = [foodItems EXCEPT ![foodItemId].price = price,
                                    ![foodItemId].isActive = isActive]
  /\ resp' = Response("editFoodItem", 200, caller, 0, "")
  /\ UNCHANGED <<orders, now, posts, ledger>>

(***************************************************************************)
(* Offers.  An offer document carries its coupon code, isActive, the       *)
(* period startDate..endDate, the optional minimum order amount, the       *)
(* per-user usage limit, its type and value, and the usage history, one    *)
(* entry [user] per recorded use.  Dates are readings of the clock now.    *)
(***************************************************************************)
OfferIds == {"o1"}

\* the virtual isValid of an offer
isValid(offer, date) ==
  offer.isActive /\ offer.startDate <= date /\ date <= offer.endDate

\* Offer.findByCouponCode: the ids of the valid offers with the code (none: null)
findByCouponCode(collection, couponCode, date) ==
  {o \in DOMAIN collection :
     collection[o].couponCode = couponCode /\ isValid(collection[o], date)}

UsesBy(offer, userId) ==
  Len(SelectSeq(offer.usageHistory, LAMBDA use : use.user = userId))

canUserUseUnlimited(offer, userId) == TRUE

canUserUse(offer, userId) == UsesBy(offer, userId) < offer.userUsageLimit

calculateDiscount(offer, orderDetails) ==
  IF IsDefined(offer.minOrderAmount) /\ orderDetails.subtotal < offer.minOrderAmount[1]
    THEN [valid |-> FALSE, discount |-> 0]
  ELSE IF offer.type = "percentage"
    THEN [valid |-> TRUE, discount |-> (orderDetails.subtotal * offer.value) \div 100]
  ELSE IF offer.type = "fixed-amount"
    THEN [valid |-> TRUE,
          discount |-> IF offer.value < orderDetails.subtotal
                         THEN offer.value ELSE orderDetails.subtotal]
  ELSE [valid |-> TRUE, discount |-> 0]

(***************************************************************************)
(* router.post('/validate-coupon')                                         *)
(***************************************************************************)
ValidCouponRequest(body) ==
  /\ body.couponCode # ""
  /\ body.orderDetails.subtotal >= 0
  /\ body.orderDetails.items >= 1
  /\ body.orderDetails.deliveryType \in {"delivery", "pickup"}

\* the status code of the answer
ValidateCouponCode(caller, body) ==
  LET found == findByCouponCode(offers, body.couponCode, now)
  IN  IF ~ValidCouponRequest(body) THEN 400
      ELSE IF found = {} THEN 404
      ELSE LET offer == offers[CHOOSE o \in found : TRUE]
           IN  IF ~canUserUse(offer, caller.id) THEN 400
               ELSE IF ~calculateDiscount(offer, body.orderDetails).valid THEN 400
               ELSE 200

PostValidateCoupon(caller, body) ==
  /\ resp' = Response("validateCoupon", ValidateCouponCode(caller, body), caller, 0, "")
  /\ UNCHANGED <<foodItems, orders, now, posts, ledger, offers>>

(***************************************************************************)
(* router.post('/') and router.put('/:id') of the offer routes             *)
(***************************************************************************)
OfferTypes == {"percentage", "fixed-amount", "buy-one-get-one", "free-delivery", "combo"}

PostOffer(caller, body) ==
  IF caller.role \notin {"admin", "manager"}
    THEN /\ resp' = Response("createOffer", 403, caller, 0, "")
         /\ UNCHANGED <<foodItems, orders, now, posts, ledger, offers>>
  ELSE IF body.type \notin OfferTypes \/ body.value < 0
          \/ (IsDefined(body.minOrderAmount) /\ body.minOrderAmount[1] < 0)
    THEN /\ resp' = Response("createOffer", 400, caller, 0, "")
         /\ UNCHANGED <<foodItems, orders, now, posts, ledger, offers>>
  ELSE
    /\ \E id \in OfferIds \ DOMAIN offers :
         offers' = [o \in DOMAIN offers \cup {id} |-> IF o = id THEN body ELSE offers[o]]
    /\ resp' = Response("createOffer", 201, caller, 0, "")
    /\ UNCHANGED <<foodItems, orders, now, posts, ledger>>

\* Offer.findByIdAndUpdate(id, req.body): the fields the body names are replaced
PutOffer(caller, id, body) ==
  IF caller.role \notin {"admin", "manager"}
    THEN /\ resp' = Response("updateOffer", 403, caller, 0, "")
         /\ UNCHANGED <<foodItems, orders, now, posts, ledger, offers>>
  ELSE IF id \notin DOMAIN offers
    THEN /\ resp' = Response("updateOffer", 404, caller, 0, "")
         /\ UNCHANGED <<foodItems, orders, now, posts, ledger, offers>>
  ELSE
    /\ offers' = [offers EXCEPT ![id] =
                    [f \in DOMAIN offers[id] |->
                       IF f \in DOMAIN body THEN body[f] ELSE offers[id][f]]]
    /\ resp' = Response("updateOffer", 200, caller, 0, "")
    /\ UNCHANGED <<foodItems, orders, now, posts, ledger>>

(***************************************************************************)
(* calculateItemDiscount, the helper of the offer routes that prices an    *)
(* item under an offer.  Here an amount (originalPrice, a fixed-amount     *)
(* value, maxDiscountAmount, the result) is counted in tenths of a cent,   *)
(* so that a price need not be a whole number of cents and the final       *)
(* rounding to cents is not the identity; a percentage value is a whole    *)
(* number of percent.  offer.isValid is the value the virtual has when the *)
(* function reads it.                                                      *)
(***************************************************************************)
\* Math.round(discountedPrice * 100) / 100, for a price given in thousandths of a cent:
\* Math.round rounds a half up
RoundToCents(thousandths) == ((thousandths + 500) \div 1000) * 10

PriceAfterFixedAmountUnclamped(originalPrice, value) == originalPrice - value

\* Math.max(0, originalPrice - offer.value)
PriceAfterFixedAmount(originalPrice, value) ==
  IF originalPrice - value > 0 THEN originalPrice - value ELSE 0

calculateItemDiscount(originalPrice, offer) ==
  IF ~offer.isValid THEN originalPrice
  ELSE
    LET \* discountedPrice in thousandths of a cent
        percentage == originalPrice * (100 - offer.value)
        maxDiscount == (originalPrice - OrZero(offer.maxDiscountAmount)) * 100
        discountedPrice ==
          CASE offer.type = "percentage" ->
                 IF Truthy(offer.maxDiscountAmount) /\ maxDiscount > percentage
                   THEN maxDiscount ELSE percentage
            [] offer.type = "fixed-amount" ->
                 PriceAfterFixedAmount(originalPrice, offer.value) * 100
            [] offer.type = "buy-one-get-one" -> originalPrice * 50
            [] OTHER -> originalPrice * 100
    IN  RoundToCents(discountedPrice)

(***************************************************************************)
(* Addresses.  Coordinates are in units of 0.0001 degree, distances in     *)
(* metres.  The free-text fields apartment, instructions and type are      *)
(* payload no check reads and are left out of the documents.               *)
(***************************************************************************)
SHOP_LAT == 413995
SHOP_LNG == 21909
\* km
MAX_DELIVERY_DISTANCE == 6

validateCoordinates(latitude, longitude) ==
  /\ IsDefined(latitude) /\ IsDefined(longitude)
  /\ latitude[1] >= -900000 /\ latitude[1] <= 900000
  /\ longitude[1] >= -1800000 /\ longitude[1] <= 1800000

\* great-circle distance in metres, tabulated for the coordinates of the model; the
\* point 41.4535, 2.1909 is taken to lie at 6 km exactly
calculateDistance(lat1, lng1, lat2, lng2) ==
  CASE lat2 = 413995 /\ lng2 = 21909 -> 0
    [] lat2 = 413995 /\ lng2 = 22500 -> 4929
    [] lat2 = 414400 /\ lng2 = 21909 -> 4503
    [] lat2 = 414400 /\ lng2 = 22500 -> 6676
    [] lat2 = 414535 /\ lng2 = 21909 -> 6000
    [] lat2 = 414535 /\ lng2 = 22500 -> 7765
    [] lat2 = 414800 /\ lng2 = 21909 -> 8951
    [] lat2 = 414800 /\ lng2 = 22500 -> 10217
    [] OTHER -> 5960000

BeyondRangeOrAtIt(latitude, longitude) ==
  calculateDistance(SHOP_LAT, SHOP_LNG, latitude, longitude) >= MAX_DELIVERY_DISTANCE * 1000

BeyondRange(latitude, longitude) ==
  calculateDistance(SHOP_LAT, SHOP_LNG, latitude, longitude) > MAX_DELIVERY_DISTANCE * 1000

\* Address.find({ userId })
AddressesOf(userId) == {a \in addresses : a.userId = userId}

\* document.save(): the document replaces the stored one with its _id
SaveDocument(collection, doc) == {a \in collection : a.id # doc.id} \cup {doc}

(***************************************************************************)
(* exports.saveAddress                                                     *)
(***************************************************************************)
saveAddress(caller, body) ==
  IF ~IsDefined(body.address) \/ ~Truthy(body.latitude) \/ ~Truthy(body.longitude)
    THEN /\ resp' = Response("saveAddress", 400, caller, 0, "")
         /\ UNCHANGED addressVars
  ELSE IF ~validateCoordinates(body.latitude, body.longitude)
    THEN /\ resp' = Response("saveAddress", 400, caller, 0, "")
         /\ UNCHANGED addressVars
  ELSE IF BeyondRange(body.latitude[1], body.longitude[1])
    THEN /\ resp' = Response("saveAddress", 400, caller, 0, "")
         /\ UNCHANGED addressVars
  ELSE
    /\ nextAddressId <= MaxAddresses
    /\ addresses' = SaveDocument(addresses,
         [ id |-> nextAddressId,
           userId |-> caller.id,
           address |-> body.address[1],
           latitude |-> body.latitude[1],
           longitude |-> body.longitude[1],
           isDefault |-> IF IsDefined(body.isDefault) THEN body.isDefault[1] ELSE FALSE ])
    /\ nextAddressId' = nextAddressId + 1
    /\ resp' = Response("saveAddress", 201, caller, nextAddressId, "")

(***************************************************************************)
(* exports.updateAddress                                                   *)
(***************************************************************************)
updateAddress(caller, addressId, body) ==
  IF ~\E a \in addresses : a.id = addressId /\ a.userId = caller.id
    THEN /\ resp' = Response("updateAddress", 404, caller, 0, "")
         /\ UNCHANGED addressVars
  ELSE IF Truthy(body.latitude) /\ Truthy(body.longitude)
          /\ ~validateCoordinates(body.latitude, body.longitude)
    THEN /\ resp' = Response("updateAddress", 400, caller, addressId, "")
         /\ UNCHANGED addressVars
  ELSE IF Truthy(body.latitude) /\ Truthy(body.longitude)
          /\ BeyondRange(body.latitude[1], body.longitude[1])
    THEN /\ resp' = Response("updateAddress", 400, caller, addressId, "")
         /\ UNCHANGED addressVars
  ELSE
    LET existingAddress == CHOOSE a \in addresses : a.id = addressId /\ a.userId = caller.id
        updated ==
          [ existingAddress EXCEPT
              !.address = IF IsDefined(body.address) THEN body.address[1] ELSE @,
              !.latitude = IF Truthy(body.latitude) THEN body.latitude[1] ELSE @,
              !.longitude = IF Truthy(body.longitude) THEN body.longitude[1] ELSE @,
              !.isDefault = IF IsDefined(body.isDefault) THEN body.isDefault[1] ELSE @ ]
    IN  /\ addresses' = SaveDocument(addresses, updated)
        /\ resp' = Response("updateAddress", 200, caller, addressId, "")
        /\ UNCHANGED nextAddressId

(***************************************************************************)
(* exports.deleteAddress.  Address.findOne({ userId }) has no sort: it     *)
(* answers with any one of the user's remaining addresses.                 *)
(***************************************************************************)
deleteAddress(caller, addressId) ==
  IF ~\E a \in addresses : a.id = addressId /\ a.userId = caller.id
    THEN /\ resp' = Response("deleteAddress", 404, caller, 0, "")
         /\ UNCHANGED addressVars
  ELSE
    LET address == CHOOSE a \in addresses : a.id = addressId /\ a.userId = caller.id
        remaining == addresses \ {address}
        candidates == {a \in remaining : a.userId = caller.id}
    IN  /\ IF address.isDefault /\ candidates # {}
             THEN \E nextAddress \in candidates :
                    addresses' = SaveDocument(remaining, [nextAddress EXCEPT !.isDefault = TRUE])
             ELSE addresses' = remaining
        /\ resp' = Response("deleteAddress", 200, caller, addressId,
                            IF address.isDefault THEN "default" ELSE "")
        /\ UNCHANGED nextAddressId

(***************************************************************************)
(* exports.setDefaultAddress                                               *)
(***************************************************************************)
\* Address.updateMany({ userId }, { $set: { isDefault: false } })
ClearDefaults(collection, userId) ==
  { IF a.userId = userId THEN [a EXCEPT !.isDefault = FALSE] ELSE a : a \in collection }

setDefaultAddress(caller, addressId) ==
  IF ~\E a \in addresses : a.id = addressId /\ a.userId = caller.id
    THEN /\ resp' = Response("setDefaultAddress", 404, caller, 0, "")
         /\ UNCHANGED addressVars
  ELSE
    LET address == CHOOSE a \in addresses : a.id = addressId /\ a.userId = caller.id
    IN  /\ addresses' = SaveDocument(ClearDefaults(addresses, caller.id),
                                     [address EXCEPT !.isDefault = TRUE])
        /\ resp' = Response("setDefaultAddress", 200, caller, addressId, "")
        /\ UNCHANGED nextAddressId

(***************************************************************************)
(* exports.validateAddress.  The answer carries canDeliver.                *)
(***************************************************************************)
CanDeliver(latitude, longitude) ==
  calculateDistance(SHOP_LAT, SHOP_LNG, latitude, longitude) <= MAX_DELIVERY_DISTANCE * 1000

validateAddress(caller, body) ==
  /\ IF ~validateCoordinates(body.latitude, body.longitude)
       THEN resp' = [ route |-> "validateAddress", code |-> 400, caller |-> caller.id,
                      id |-> 0, was |-> "", canDeliver |-> FALSE ]
       ELSE resp' = [ route |-> "validateAddress", code |-> 200, caller |-> caller.id,
                      id |-> 0, was |-> "",
                      canDeliver |-> CanDeliver(body.latitude[1], body.longitude[1]) ]
  /\ UNCHANGED addressVars

(***************************************************************************)
(* The initial state: an empty order and address collection and a catalog  *)
(* of two active food items.                                               *)
(***************************************************************************)
InitStores ==
  /\ foodItems = [f \in ItemIds |->
       [ price |-> IF f = "f1" THEN 1000 ELSE 650,
         isActive |-> TRUE,
         stockQuantity |-> IF f = "f1" THEN 2 ELSE 5,
         totalSold |-> 0 ]]
  /\ orders = <<>>
  /\ now = 0
  /\ posts = 0
  /\ ledger = <<>>
  /\ resp = [route |-> "", code |-> 0, caller |-> "", id |-> 0, was |-> ""]
  /\ addresses = {}
  /\ nextAddressId = 1
  /\ offers = [o \in {} |-> 0]

\* no account is registered and no request is in flight
NoAccounts == users = <<>> /\ tokens = {} /\ verified = {}

NoTasks == tasks = <<>>

Init == InitStores /\ req = Undefined /\ NoAccounts /\ NoTasks

(***************************************************************************)
(* Requests                                                                *)
(***************************************************************************)
Line(foodItemId, quantity) ==
  [ foodItem |-> foodItemId, quantity |-> quantity,
    selectedMealSize |-> Undefined, selectedExtras |-> Undefined, selectedAddons |-> Undefined ]

Body(items) ==
  [ items |-> items, deliveryType |-> "pickup", paymentMethod |-> "card",
    codPaymentType |-> Undefined, deliveryAddress |-> Undefined,
    couponCode |-> Undefined, deliveryFee |-> Undefined, total |-> Undefined ]

Carts ==
  { <<Line("f1", 3)>>, <<Line("f2", 1), Line("f1", 1)>>, <<Line("f1", 1), Line("f1", 1)>>,
    <<Line("f2", 1), Line(MissingItemId, 1)>>, <<Line("f1", 0)>> }

Ratings == { [overall |-> 0], [overall |-> 2], [overall |-> 5] }

(***************************************************************************)
(* Spec: the life of one order.  One customer sends one create request;    *)
(* then the owner, another customer, an admin and a manager send any       *)
(* status, cancel and rating requests.                                     *)
(***************************************************************************)
Owner == [id |-> "u1", role |-> "user"]
Stranger == [id |-> "u2", role |-> "user"]
Admin == [id |-> "a1", role |-> "admin"]

CreateOrder == \E items \in Carts :
  /\ posts = 0
  /\ PostOrder(Owner, Body(items))
  /\ UNCHANGED <<addressVars, offers, req, authVars, tasks>>

UpdateStatus == \E caller \in Callers, id \in 1..MaxPosts, status \in OrderStatuses \cup {"refunded"} :
  PatchStatus(caller, id, status) /\ UNCHANGED <<addressVars, offers, req, authVars, tasks>>

CancelOrder == \E caller \in Callers, id \in 1..MaxPosts, reason \in {"", "changed my mind"} :
  PatchCancel(caller, id, reason) /\ UNCHANGED <<addressVars, offers, req, authVars, tasks>>

RateOrder == \E caller \in Callers, id \in 1..MaxPosts, rating \in Ratings :
  PostRating(caller, id, rating) /\ UNCHANGED <<addressVars, offers, req, authVars, tasks>>

Next == CreateOrder \/ UpdateStatus \/ CancelOrder \/ RateOrder

Spec == Init /\ [][Next]_vars

(***************************************************************************)
(* SpecStock: the stock of the catalog under several orders of one         *)
(* customer, their cancellation by the owner, another customer or an       *)
(* admin, and the status updates that deliver or reopen an order.          *)
(***************************************************************************)
PlaceOrder == \E items \in Carts :
  PostOrder(Owner, Body(items)) /\ UNCHANGED <<addressVars, offers, req, authVars, tasks>>

DeliverOrReopen == \E id \in 1..MaxPosts, status \in {"pending", "delivered"} :
  PatchStatus(Admin, id, status) /\ UNCHANGED <<addressVars, offers, req, authVars, tasks>>

CancelPlaced == \E caller \in {Owner, Stranger, Admin}, id \in 1..MaxPosts :
  PatchCancel(caller, id, "changed my mind") /\ UNCHANGED <<addressVars, offers, req, authVars, tasks>>

NextStock == PlaceOrder \/ DeliverOrReopen \/ CancelPlaced

SpecStock == Init /\ [][NextStock]_vars

(***************************************************************************)
(* SpecPricing: create requests whose lines carry selections.  The prices  *)
(* a selection carries are the client's: the catalog lists large at 200,   *)
(* cheese at 150, bacon at 100 and dip at 50.                              *)
(***************************************************************************)
Size(name, additionalPrice) == Some([name |-> name, additionalPrice |-> additionalPrice])
Option(name, price) == [name |-> name, price |-> price]

Selections ==
  { [ selectedMealSize |-> Undefined, selectedExtras |-> Undefined, selectedAddons |-> Undefined ],
    [ selectedMealSize |-> Undefined,
      selectedExtras |-> Some(<<Option("cheese", Some(150))>>),
      selectedAddons |-> Undefined ],
    [ selectedMealSize |-> Size("large", Some(200)),
      selectedExtras |-> Some(<<Option("cheese", Some(150)), Option("bacon", Some(100))>>),
      selectedAddons |-> Some(<<Option("dip", Some(50))>>) ],
    [ selectedMealSize |-> Size("large", Some(0)),
      selectedExtras |-> Some(<<Option("cheese", Some(10)), Option("bacon", Some(100))>>),
      selectedAddons |-> Some(<<Option("dip", Some(50))>>) ],
    [ selectedMealSize |-> Size("large", Undefined),
      selectedExtras |-> Some(<<Option("cheese", Undefined)>>),
      selectedAddons |-> Some(<<>>) ] }

SelectedLine(foodItemId, quantity, selection) ==
  [ foodItem |-> foodItemId, quantity |-> quantity,
    selectedMealSize |-> selection.selectedMealSize,
    selectedExtras |-> selection.selectedExtras,
    selectedAddons |-> selection.selectedAddons ]

SelectedLines == { SelectedLine("f1", q, sel) : q \in {1, 2}, sel \in Selections }

SelectedCarts ==
  { <<line>> : line \in SelectedLines } \cup { <<line, Line("f2", 1)>> : line \in SelectedLines }

PricedBodies ==
  { [ items |-> items, deliveryType |-> "delivery", paymentMethod |-> "cashOnDelivery",
      codPaymentType |-> Some("cash"), deliveryAddress |-> Some("Carrer 1"),
      couponCode |-> couponCode, deliveryFee |-> deliveryFee, total |-> total ] :
    items \in SelectedCarts,
    couponCode \in {Undefined, Some("SAVE10")},
    deliveryFee \in {Undefined, Some(250)},
    total \in {Undefined, Some(10)} }

PriceOrder == \E body \in PricedBodies :
  PostOrder(Owner, body) /\ UNCHANGED <<addressVars, offers, req, authVars, tasks>>

NextPricing == PriceOrder

SpecPricing == Init /\ [][NextPricing]_vars

(***************************************************************************)
(* SpecAddress: the address requests of two customers, one at a time.      *)
(***************************************************************************)
AddressBody(address, latitude, longitude, isDefault) ==
  [address |-> address, latitude |-> latitude, longitude |-> longitude, isDefault |-> isDefault]

AddressBodies ==
  { AddressBody(Some("Carrer 1"), Some(413995), Some(21909), Undefined),
    AddressBody(Some("Carrer 1"), Some(413995), Some(22500), Some(TRUE)),
    AddressBody(Some("Carrer 1"), Some(414400), Some(22500), Some(TRUE)),
    AddressBody(Some("Carrer 1"), Some(950000), Some(21909), Undefined),
    AddressBody(Some("Carrer 1"), Some(0), Some(21909), Undefined),
    AddressBody(Undefined, Some(413995), Some(21909), Some(FALSE)),
    AddressBody(Undefined, Some(414400), Undefined, Undefined),
    AddressBody(Undefined, Undefined, Undefined, Some(TRUE)),
    AddressBody(Undefined, Undefined, Undefined, Some(FALSE)) }

SaveAddress == \E caller \in Customers, body \in AddressBodies :
  saveAddress(caller, body) /\ UNCHANGED <<orderVars, offers, req, authVars, tasks>>

UpdateAddress == \E caller \in Customers, addressId \in 1..MaxAddresses, body \in AddressBodies :
  updateAddress(caller, addressId, body) /\ UNCHANGED <<orderVars, offers, req, authVars, tasks>>

DeleteAddress == \E caller \in Customers, addressId \in 1..MaxAddresses :
  deleteAddress(caller, addressId) /\ UNCHANGED <<orderVars, offers, req, authVars, tasks>>

SetDefaultAddress == \E caller \in Customers, addressId \in 1..MaxAddresses :
  setDefaultAddress(caller, addressId) /\ UNCHANGED <<orderVars, offers, req, authVars, tasks>>

NextAddress == SaveAddress \/ UpdateAddress \/ DeleteAddress \/ SetDefaultAddress

SpecAddress == Init /\ [][NextAddress]_vars

(***************************************************************************)
(* SpecCreate: create requests of one customer with and without a delivery *)
(* address, a COD payment type and a client total, over carts whose second *)
(* or third line names a food item that is missing or was withdrawn from   *)
(* the catalog.  The orders A and C below are priced 16.50 and 30.00.      *)
(***************************************************************************)
CartA == <<Line("f2", 1), Line("f1", 1)>>
CartB == <<Line("f2", 1), Line(MissingItemId, 1)>>
CartC == <<Line("f1", 3)>>
CartD == <<Line("f1", 1), Line("f2", 2), Line(MissingItemId, 1)>>

CreateBody(items, deliveryType, deliveryAddress, paymentMethod, codPaymentType, total) ==
  [ items |-> items, deliveryType |-> deliveryType, paymentMethod |-> paymentMethod,
    codPaymentType |-> codPaymentType, deliveryAddress |-> deliveryAddress,
    couponCode |-> Undefined, deliveryFee |-> Undefined, total |-> total ]

CreateBodies ==
  { CreateBody(CartA, d[1], d[2], p[1], p[2], Undefined) :
      d \in { <<"pickup", Undefined>>, <<"delivery", Undefined>>,
              <<"delivery", Some("Carrer 1")>> },
      p \in { <<"card", Undefined>>, <<"cashOnDelivery", Undefined>>,
              <<"cash-on-delivery", Undefined>>, <<"cashOnDelivery", Some("cash")>> } }
  \cup { CreateBody(items, "pickup", Undefined, "card", Undefined, total) :
           items \in {CartA, CartB}, total \in {Undefined, Some(1650), Some(10)} }
  \cup { CreateBody(items, "pickup", Undefined, "card", Undefined, Undefined) :
           items \in {CartC, CartD} }
  \cup { CreateBody(CartB, "delivery", Undefined, "card", Undefined, Undefined),
         CreateBody(CartB, "pickup", Undefined, "cash-on-delivery", Undefined, Undefined) }

SubmitOrder == \E body \in CreateBodies :
  /\ PostOrder(Owner, body)
  /\ req' = Some(body)
  /\ UNCHANGED <<addressVars, offers, authVars, tasks>>

WithdrawItem == \E foodItemId \in ItemIds, isActive \in BOOLEAN :
  /\ EditFoodItem(Admin, foodItemId, foodItems[foodItemId].price, isActive)
  /\ UNCHANGED <<addressVars, offers, req, authVars, tasks>>

NextCreate == SubmitOrder \/ WithdrawItem

SpecCreate == Init /\ [][NextCreate]_vars

(***************************************************************************)
(* SpecOffer: an admin creates the offer SAVE10, valid from time 1 to 2,   *)
(* and edits it; time passes; two customers ask for the validation of a    *)
(* coupon code, and one of them places orders with the code.               *)
(***************************************************************************)
NewOffers ==
  { [ couponCode |-> "SAVE10", isActive |-> isActive, startDate |-> 1, endDate |-> 2,
      minOrderAmount |-> minOrderAmount, userUsageLimit |-> 1,
      type |-> "percentage", value |-> 10, usageHistory |-> <<>> ] :
    isActive \in BOOLEAN, minOrderAmount \in {Undefined, Some(2000)} }
  \cup { [ couponCode |-> "SAVE10", isActive |-> TRUE, startDate |-> 1, endDate |-> 2,
           minOrderAmount |-> Undefined, userUsageLimit |-> 1,
           type |-> "seasonal", value |-> 10, usageHistory |-> <<>> ] }

OfferEdits ==
  { [isActive |-> FALSE], [isActive |-> TRUE],
    [usageHistory |-> <<[user |-> "u1"]>>],
    [usageHistory |-> <<[user |-> "u2"], [user |-> "u1"], [user |-> "u1"]>>],
    [userUsageLimit |-> 2] }

CouponRequests ==
  { [ couponCode |-> couponCode,
      orderDetails |-> [subtotal |-> subtotal, items |-> items, deliveryType |-> "pickup"] ] :
    couponCode \in {"SAVE10", "SAVE20", ""}, subtotal \in {1650, 2000}, items \in {0, 2} }

CreateOffer == \E caller \in {Admin, Owner}, body \in NewOffers :
  PostOffer(caller, body) /\ UNCHANGED <<addressVars, req, authVars, tasks>>

UpdateOffer == \E caller \in {Admin, Owner}, id \in OfferIds, body \in OfferEdits :
  PutOffer(caller, id, body) /\ UNCHANGED <<addressVars, req, authVars, tasks>>

ValidateCoupon == \E caller \in Customers, body \in CouponRequests :
  /\ PostValidateCoupon(caller, body)
  /\ req' = Some(body)
  /\ UNCHANGED <<addressVars, authVars, tasks>>

PlaceCouponOrder == \E couponCode \in {"SAVE10", "SAVE20"} :
  /\ PostOrder(Owner, [Body(CartA) EXCEPT !.couponCode = Some(couponCode)])
  /\ req' = Some([Body(CartA) EXCEPT !.couponCode = Some(couponCode)])
  /\ UNCHANGED <<addressVars, offers, authVars, tasks>>

\* time passes
Tick ==
  /\ now < MaxClock
  /\ now' = now + 1
  /\ UNCHANGED <<foodItems, orders, posts, ledger, resp, req, addresses, nextAddressId, offers, authVars, tasks>>

NextOffer == CreateOffer \/ UpdateOffer \/ ValidateCoupon \/ PlaceCouponOrder \/ Tick

SpecOffer == Init /\ [][NextOffer]_vars

(***************************************************************************)
(* SpecDiscount: calculateItemDiscount applied to one original price and   *)
(* one offer.  Prices of 9.99, 10.004 and 10.005 are among the inputs, and *)
(* percentage values above 100.                                            *)
(***************************************************************************)
DiscountInputs ==
  { [ originalPrice |-> originalPrice,
      offer |-> [ isValid |-> valid, type |-> type, value |-> value,
                  maxDiscountAmount |-> maxDiscountAmount ] ] :
    originalPrice \in {0, 5000, 9990, 10000, 10004, 10005},
    valid \in BOOLEAN,
    type \in OfferTypes,
    value \in {0, 10, 50, 150, 1000, 12000},
    maxDiscountAmount \in {Undefined, Some(0), Some(5), Some(1000)} }

InitDiscount == InitStores /\ req \in {Some(input) : input \in DiscountInputs} /\ NoAccounts /\ NoTasks

ItemDiscount ==
  /\ IsDefined(req)
  /\ resp' = [ route |-> "calculateItemDiscount",
               result |-> calculateItemDiscount(req[1].originalPrice, req[1].offer) ]
  /\ UNCHANGED <<foodItems, orders, now, posts, ledger, req, addresses, nextAddressId, offers, authVars, tasks>>

NextDiscount == ItemDiscount

SpecDiscount == InitDiscount /\ [][NextDiscount]_vars

(***************************************************************************)
(* SpecDelivery: customers ask whether a coordinate can be delivered to    *)
(* and save addresses, at coordinates within, at and beyond 6 km of the    *)
(* shop, outside the valid range, and at latitude 0.                       *)
(***************************************************************************)
DeliveryBodies ==
  { AddressBody(address, latitude, longitude, Undefined) :
      address \in {Undefined, Some("Carrer 1")},
      latitude \in {Undefined, Some(0), Some(413995), Some(414400), Some(414535),
                    Some(414800), Some(950000)},
      longitude \in {Some(21909), Some(22500)} }

CheckAddress == \E caller \in {Owner}, body \in DeliveryBodies :
  /\ validateAddress(caller, body)
  /\ req' = Some(body)
  /\ UNCHANGED <<orderVars, offers, authVars, tasks>>

StoreAddress == \E caller \in {Owner}, body \in DeliveryBodies :
  /\ saveAddress(caller, body)
  /\ req' = Some(body)
  /\ UNCHANGED <<orderVars, offers, authVars, tasks>>

NextDelivery == CheckAddress \/ StoreAddress

SpecDelivery == Init /\ [][NextDelivery]_vars

(***************************************************************************)
(* SpecFrame: one order, with or without selections, then status updates,  *)
(* cancellations and ratings of it and changes of the catalog prices.      *)
(***************************************************************************)
FrameCarts ==
  { CartA,
    <<SelectedLine("f1", 2,
        [ selectedMealSize |-> Size("large", Some(200)),
          selectedExtras |-> Some(<<Option("cheese", Some(150))>>),
          selectedAddons |-> Some(<<Option("dip", Some(50))>>) ])>> }

CreateFramedOrder == \E items \in FrameCarts :
  /\ posts = 0
  /\ PostOrder(Owner, Body(items))
  /\ UNCHANGED <<addressVars, offers, req, authVars, tasks>>

RateDelivered == \E caller \in {Owner, Stranger}, id \in 1..MaxPosts, rating \in Ratings :
  PostRating(caller, id, rating) /\ UNCHANGED <<addressVars, offers, req, authVars, tasks>>

ChangePrice == \E foodItemId \in ItemIds, price \in {500, 1000} :
  /\ EditFoodItem(Admin, foodItemId, price, foodItems[foodItemId].isActive)
  /\ UNCHANGED <<addressVars, offers, req, authVars, tasks>>

NextFrame ==
  CreateFramedOrder \/ DeliverOrReopen \/ CancelPlaced \/ RateDelivered \/ ChangePrice

SpecFrame == Init /\ [][NextFrame]_vars

(***************************************************************************)
(* Requests in flight.  A handler runs to its next await in one step; the  *)
(* database round trip it awaits is where the handler of another request   *)
(* may run.  tasks holds, for every request in flight, the handler's       *)
(* position (pc) and its local variables.                                  *)
(***************************************************************************)
TaskIds == {1, 2}

IdleTask == [pc |-> "idle"]

IdleTasks == tasks = [t \in TaskIds |-> IdleTask]

\* the other request in flight
Other(t) == CHOOSE u \in TaskIds : u # t

(***************************************************************************)
(* router.post('/') as the steps between its awaits: the validators and    *)
(* the checks before the loop; FoodItem.findById of the line at hand; the  *)
(* rest of the loop body up to the save of updateStock; Order.create.      *)
(***************************************************************************)
BeginPostOrder(t, caller, body) ==
  /\ tasks[t].pc = "idle"
  /\ IF ~ValidOrderBody(body) \/ MissingCodPaymentType(body) \/ MissingDeliveryAddress(body)
       THEN /\ resp' = Response("create", 400, caller, 0, "")
            /\ tasks' = [tasks EXCEPT ![t] = [pc |-> "done"]]
            /\ UNCHANGED <<foodItems, orders, now, posts, ledger>>
       ELSE /\ posts < MaxPosts
            /\ posts' = posts + 1
            /\ tasks' = [tasks EXCEPT ![t] =
                 [ pc |-> "findById", route |-> "create", caller |-> caller, body |-> body,
                   k |-> 1, foodItem |-> Undefined, processedItems |-> <<>>, subtotal |-> 0,
                   stockBefore |-> [f \in ItemIds |-> foodItems[f].stockQuantity] ]]
            /\ UNCHANGED <<foodItems, orders, now, ledger, resp>>

FindFoodItem(t) ==
  /\ tasks[t].pc = "findById"
  /\ LET foodItemId == tasks[t].body.items[tasks[t].k].foodItem
     IN  IF foodItemId \notin DOMAIN foodItems \/ ~foodItems[foodItemId].isActive
           THEN /\ resp' = Response("create", 400, tasks[t].caller, 0, "")
                /\ tasks' = [tasks EXCEPT ![t] = [pc |-> "done"]]
           ELSE /\ tasks' = [tasks EXCEPT ![t].pc = "updateStock",
                                          ![t].foodItem = Some(foodItems[foodItemId])]
                /\ resp' = resp
  /\ UNCHANGED <<foodItems, orders, now, posts, ledger>>

\* this.save() writes the fields of the document findById returned
DocumentSavedReloaded(loaded, stored) == stored

DocumentSaved(loaded, stored) == loaded

SaveFoodItem(t) ==
  /\ tasks[t].pc = "updateStock"
  /\ LET item == tasks[t].body.items[tasks[t].k]
         foodItemId == item.foodItem
         foodItem == DocumentSaved(tasks[t].foodItem[1], foodItems[foodItemId])
         line == ProcessedItem(foodItemId, tasks[t].foodItem[1], item)
     IN  /\ foodItems' = [foodItems EXCEPT
                            ![foodItemId] = updateStock(foodItem, item.quantity, "subtract")]
         /\ tasks' = [tasks EXCEPT
              ![t].processedItems = Append(@, line),
              ![t].subtotal = @ + line.totalPrice,
              ![t].k = @ + 1,
              ![t].pc = IF tasks[t].k + 1 > Len(tasks[t].body.items)
                          THEN "create" ELSE "findById"]
  /\ UNCHANGED <<orders, now, posts, ledger, resp>>

CreateOrderDocument(t) ==
  /\ tasks[t].pc = "create"
  /\ orders' = Append(orders, NewOrder(tasks[t].caller, tasks[t].body, tasks[t]))
  /\ ledger' = Append([k \in 1..Len(ledger) |-> [ledger[k] EXCEPT !.undisturbed = FALSE]],
                 [ stockBefore |-> tasks[t].stockBefore, undisturbed |-> FALSE, restored |-> 0 ])
  /\ resp' = Response("create", 201, tasks[t].caller, Len(orders) + 1, "")
  /\ tasks' = [tasks EXCEPT ![t] = [pc |-> "done"]]
  /\ UNCHANGED <<foodItems, now, posts>>

(***************************************************************************)
(* SpecRace: two customers send one create request each, and the two       *)
(* handlers run interleaved at their awaits.                               *)
(***************************************************************************)
RaceCarts ==
  { <<Line("f1", 1)>>, <<Line("f1", 2)>>, <<Line("f1", 3)>>,
    <<Line("f2", 1), Line("f1", 1)>>, <<Line(MissingItemId, 1)>>, <<Line("f1", 0)>> }

InitRace == InitStores /\ req = Undefined /\ NoAccounts /\ IdleTasks

ReceiveOrder == \E t \in TaskIds, items \in RaceCarts :
  /\ BeginPostOrder(t, IF t = 1 THEN Owner ELSE Stranger, Body(items))
  /\ UNCHANGED <<addressVars, offers, req, authVars>>

ReadFoodItem == \E t \in TaskIds :
  FindFoodItem(t) /\ UNCHANGED <<addressVars, offers, req, authVars>>

WriteFoodItem == \E t \in TaskIds :
  SaveFoodItem(t) /\ UNCHANGED <<addressVars, offers, req, authVars>>

StoreOrder == \E t \in TaskIds :
  CreateOrderDocument(t) /\ UNCHANGED <<addressVars, offers, req, authVars>>

NextRace == ReceiveOrder \/ ReadFoodItem \/ WriteFoodItem \/ StoreOrder

SpecRace == InitRace /\ [][NextRace]_vars

(***************************************************************************)
(* exports.setDefaultAddress as the steps between its awaits:              *)
(* Address.findOne; Address.updateMany; address.save().                    *)
(***************************************************************************)
FindAddress(t, caller, addressId) ==
  /\ tasks[t].pc = "idle"
  /\ IF ~\E a \in addresses : a.id = addressId /\ a.userId = caller.id
       THEN /\ resp' = Response("setDefaultAddress", 404, caller, 0, "")
            /\ tasks' = [tasks EXCEPT ![t] =
                 [pc |-> "done", route |-> "setDefaultAddress", caller |-> caller,
                  address |-> Undefined]]
       ELSE /\ tasks' = [tasks EXCEPT ![t] =
                 [ pc |-> "updateMany", route |-> "setDefaultAddress", caller |-> caller,
                   address |-> Some(CHOOSE a \in addresses :
                                      a.id = addressId /\ a.userId = caller.id) ]]
            /\ resp' = resp
  /\ UNCHANGED addressVars

UpdateManyDefaults(t) ==
  /\ tasks[t].pc = "updateMany"
  /\ addresses' = ClearDefaults(addresses, tasks[t].caller.id)
  /\ tasks' = [tasks EXCEPT ![t].pc = "save"]
  /\ UNCHANGED <<nextAddressId, resp>>

SaveDefaultAddress(t) ==
  /\ tasks[t].pc = "save"
  /\ addresses' = SaveDocument(addresses, [tasks[t].address[1] EXCEPT !.isDefault = TRUE])
  /\ resp' = Response("setDefaultAddress", 200, tasks[t].caller, tasks[t].address[1].id, "")
  /\ tasks' = [tasks EXCEPT ![t].pc = "done"]
  /\ UNCHANGED nextAddressId

(***************************************************************************)
(* SpecDefaultRace: customers store addresses, none of them as default;    *)
(* then two set-default requests run interleaved at their awaits.          *)
(***************************************************************************)
PlainAddressBodies ==
  { AddressBody(Some("Carrer 1"), Some(413995), Some(21909), Undefined),
    AddressBody(Some("Carrer 2"), Some(413995), Some(22500), Some(FALSE)) }

InitDefaultRace == InitStores /\ req = Undefined /\ NoAccounts /\ IdleTasks

\* the addresses are stored before the two set-default requests arrive
StorePlainAddress == \E caller \in Customers, body \in PlainAddressBodies :
  /\ IdleTasks
  /\ saveAddress(caller, body)
  /\ UNCHANGED <<orderVars, offers, req, authVars, tasks>>

SetDefaultReceived == \E t \in TaskIds, caller \in Customers, addressId \in 1..MaxAddresses :
  FindAddress(t, caller, addressId) /\ UNCHANGED <<orderVars, offers, req, authVars>>

DefaultsCleared == \E t \in TaskIds :
  UpdateManyDefaults(t) /\ UNCHANGED <<orderVars, offers, req, authVars>>

DefaultSaved == \E t \in TaskIds :
  SaveDefaultAddress(t) /\ UNCHANGED <<orderVars, offers, req, authVars>>

NextDefaultRace == StorePlainAddress \/ SetDefaultReceived \/ DefaultsCleared \/ DefaultSaved

SpecDefaultRace == InitDefaultRace /\ [][NextDefaultRace]_vars

(***************************************************************************)
(* Accounts.  users is the User collection, a function from the e-mail     *)
(* addresses registered to the documents.  tokens is the set of tokens     *)
(* generateAuthToken has signed so far, each with the e-mail of its        *)
(* payload.  verified is the history a claim about password reset speaks   *)
(* of: the accounts whose stored reset OTP has passed verify-reset-otp.    *)
(* The answer of an auth route is                                          *)
(*   [route, code, message, token, email]                                  *)
(* with the token the answer carries (token or resetToken), if any.        *)
(***************************************************************************)
AuthResponse(route, code, message, token, email) ==
  [route |-> route, code |-> code, message |-> message, token |-> token, email |-> email]

\* body('email').isEmail(): the requests carry a well-formed address or none
isEmail(email) == email # ""

\* bcrypt.hash in the pre-save hook and bcrypt.compare in matchPassword
Hash(password) == <<"bcrypt", password>>

matchPassword(user, enteredPassword) == Hash(enteredPassword) = user.password

\* jwt.sign({ id, email, role }, JWT_SECRET): the payload the routes read
generateAuthToken(user) == [email |-> user.email, role |-> user.role, signed |-> TRUE]

\* jwt.verify(resetToken, JWT_SECRET) succeeds for a token the server signed
jwtVerify(token) == token.signed /\ token \in tokens

(***************************************************************************)
(* User model: the one-time codes.  A code is stored with the time it      *)
(* expires at and is accepted while it is stored, equal and not expired.   *)
(***************************************************************************)
OTP_LIFETIME == 2

OtpCodes == {"111111", "222222"}

generateEmailOTP(user, otp) ==
  [user EXCEPT !.emailOTP = Some(otp), !.emailOTPExpire = Some(now + OTP_LIFETIME)]

verifyEmailOTP(user, otp) ==
  /\ IsDefined(user.emailOTP) /\ IsDefined(user.emailOTPExpire)
  /\ user.emailOTP[1] = otp
  /\ now <= user.emailOTPExpire[1]

generatePasswordResetOTP(user, otp) ==
  [user EXCEPT !.resetPasswordOTP = Some(otp),
               !.resetPasswordOTPExpire = Some(now + OTP_LIFETIME)]

verifyPasswordResetOTP(user, otp) ==
  /\ IsDefined(user.resetPasswordOTP) /\ IsDefined(user.resetPasswordOTPExpire)
  /\ user.resetPasswordOTP[1] = otp
  /\ now <= user.resetPasswordOTPExpire[1]

(***************************************************************************)
(* router.post('/register')                                                *)
(***************************************************************************)
PostRegister(body, otp) ==
  IF ~isEmail(body.email) \/ Len(body.password) < 6
    THEN /\ resp' = AuthResponse("register", 400, "Validation failed", Undefined, body.email)
         /\ UNCHANGED authVars
  ELSE IF \E e \in DOMAIN users : e = body.email \/ users[e].phone = body.phone
    THEN /\ resp' = AuthResponse("register", 400,
                      IF body.email \in DOMAIN users THEN "Email already registered"
                      ELSE "Phone number already registered", Undefined, body.email)
         /\ UNCHANGED authVars
  ELSE
    LET user == [ email |-> body.email, phone |-> body.phone,
                  password |-> Hash(body.password), role |-> "user",
                  isActive |-> TRUE, emailVerified |-> FALSE,
                  emailOTP |-> Undefined, emailOTPExpire |-> Undefined,
                  resetPasswordOTP |-> Undefined, resetPasswordOTPExpire |-> Undefined,
                  lastLogin |-> Undefined ]
    IN  /\ users' = [e \in DOMAIN users \cup {body.email} |->
                       IF e = body.email THEN generateEmailOTP(user, otp) ELSE users[e]]
        /\ resp' = AuthResponse("register", 201,
                     "Registration successful. Please check your email for the OTP code.",
                     Undefined, body.email)
        /\ UNCHANGED <<tokens, verified>>

(***************************************************************************)
(* router.post('/verify-otp')                                              *)
(***************************************************************************)
PostVerifyOtp(body) ==
  IF ~isEmail(body.email) \/ Len(body.otp) # 6
    THEN /\ resp' = AuthResponse("verifyOtp", 400, "Validation failed", Undefined, body.email)
         /\ UNCHANGED authVars
  ELSE IF body.email \notin DOMAIN users
    THEN /\ resp' = AuthResponse("verifyOtp", 404, "User not found", Undefined, body.email)
         /\ UNCHANGED authVars
  ELSE IF ~verifyEmailOTP(users[body.email], body.otp)
    THEN /\ resp' = AuthResponse("verifyOtp", 400, "Invalid or expired OTP",
                                 Undefined, body.email)
         /\ UNCHANGED authVars
  ELSE
    LET user == [users[body.email] EXCEPT !.emailVerified = TRUE,
                   !.emailOTP = Undefined, !.emailOTPExpire = Undefined,
                   !.lastLogin = Some(now)]
    IN  /\ users' = [users EXCEPT ![body.email] = user]
        /\ tokens' = tokens \cup {generateAuthToken(user)}
        /\ resp' = AuthResponse("verifyOtp", 200, "Email verified successfully",
                                Some(generateAuthToken(user)), body.email)
        /\ UNCHANGED verified

(***************************************************************************)
(* router.post('/resend-otp').  delivered tells whether sendOTPEmail       *)
(* returned or threw.                                                      *)
(***************************************************************************)
PostResendOtp(body, otp, delivered) ==
  IF ~isEmail(body.email)
    THEN /\ resp' = AuthResponse("resendOtp", 400, "Validation failed", Undefined, body.email)
         /\ UNCHANGED authVars
  ELSE IF body.email \notin DOMAIN users
    THEN /\ resp' = AuthResponse("resendOtp", 404, "User not found with that email",
                                 Undefined, body.email)
         /\ UNCHANGED authVars
  ELSE IF users[body.email].emailVerified
    THEN /\ resp' = AuthResponse("resendOtp", 400, "Email is already verified",
                                 Undefined, body.email)
         /\ UNCHANGED authVars
  ELSE
    /\ users' = [users EXCEPT ![body.email] = generateEmailOTP(@, otp)]
    /\ resp' = IF delivered
                 THEN AuthResponse("resendOtp", 200, "OTP sent successfully",
                                   Undefined, body.email)
                 ELSE AuthResponse("resendOtp", 500, "Failed to send OTP",
                                   Undefined, body.email)
    /\ UNCHANGED <<tokens, verified>>

(***************************************************************************)
(* router.post('/login')                                                   *)
(***************************************************************************)
PostLogin(body) ==
  IF ~isEmail(body.email) \/ body.password = ""
    THEN /\ resp' = AuthResponse("login", 400, "Validation failed", Undefined, body.email)
         /\ UNCHANGED authVars
  ELSE IF body.email \notin DOMAIN users
    THEN /\ resp' = AuthResponse("login", 401, "Invalid credentials", Undefined, body.email)
         /\ UNCHANGED authVars
  ELSE IF ~users[body.email].isActive
    THEN /\ resp' = AuthResponse("login", 401,
                      "Account has been deactivated. Please contact support.",
                      Undefined, body.email)
         /\ UNCHANGED authVars
  ELSE IF ~matchPassword(users[body.email], body.password)
    THEN /\ resp' = AuthResponse("login", 401, "Invalid credentials", Undefined, body.email)
         /\ UNCHANGED authVars
  ELSE IF ~users[body.email].emailVerified
    THEN /\ resp' = AuthResponse("login", 403, "Please verify your email before logging in",
                                 Undefined, body.email)
         /\ UNCHANGED authVars
  ELSE
    /\ users' = [users EXCEPT ![body.email].lastLogin = Some(now)]
    /\ tokens' = tokens \cup {generateAuthToken(users[body.email])}
    /\ resp' = AuthResponse("login", 200, "Login successful",
                            Some(generateAuthToken(users[body.email])), body.email)
    /\ UNCHANGED verified

(***************************************************************************)
(* router.post('/forgot-password').  delivered tells whether               *)
(* sendPasswordResetOTPEmail returned or threw.                            *)
(***************************************************************************)
ForgotPasswordAnswer(collection, body, delivered) ==
  IF ~isEmail(body.email)
    THEN [code |-> 400, message |-> "Validation failed"]
  ELSE IF body.email \notin DOMAIN collection
    THEN [ code |-> 200,
           message |->
             "If an account exists with that email, a password reset code has been sent." ]
  ELSE IF delivered
    THEN [code |-> 200, message |-> "Password reset code sent to your email"]
  ELSE [code |-> 500, message |-> "Failed to send password reset code. Please try again."]

PostForgotPassword(body, otp, delivered) ==
  LET answer == ForgotPasswordAnswer(users, body, delivered)
  IN  /\ resp' = AuthResponse("forgotPassword", answer.code, answer.message,
                              Undefined, body.email)
      /\ IF isEmail(body.email) /\ body.email \in DOMAIN users
           THEN /\ users' = [users EXCEPT ![body.email] =
                     IF delivered
                       THEN generatePasswordResetOTP(@, otp)
                       ELSE [@ EXCEPT !.resetPasswordOTP = Undefined,
                                      !.resetPasswordOTPExpire = Undefined]]
                /\ verified' = verified \ {body.email}
                /\ UNCHANGED tokens
           ELSE UNCHANGED authVars

(***************************************************************************)
(* router.post('/verify-reset-otp')                                        *)
(***************************************************************************)
PostVerifyResetOtp(body) ==
  IF ~isEmail(body.email) \/ Len(body.otp) # 6
    THEN /\ resp' = AuthResponse("verifyResetOtp", 400, "Validation failed",
                                 Undefined, body.email)
         /\ UNCHANGED authVars
  ELSE IF body.email \notin DOMAIN users
    THEN /\ resp' = AuthResponse("verifyResetOtp", 404, "User not found",
                                 Undefined, body.email)
         /\ UNCHANGED authVars
  ELSE IF ~verifyPasswordResetOTP(users[body.email], body.otp)
    THEN /\ resp' = AuthResponse("verifyResetOtp", 400, "Invalid or expired OTP",
                                 Undefined, body.email)
         /\ UNCHANGED authVars
  ELSE
    /\ tokens' = tokens \cup {generateAuthToken(users[body.email])}
    /\ verified' = verified \cup {body.email}
    /\ resp' = AuthResponse("verifyResetOtp", 200, "OTP verified successfully",
                            Some(generateAuthToken(users[body.email])), body.email)
    /\ UNCHANGED users

(***************************************************************************)
(* router.post('/reset-password')                                          *)
(***************************************************************************)
PostResetPassword(body) ==
  IF \/ ~isEmail(body.email) \/ Len(body.newPassword) < 6
     \/ body.confirmPassword # body.newPassword
    THEN /\ resp' = AuthResponse("resetPassword", 400, "Validation failed",
                                 Undefined, body.email)
         /\ UNCHANGED authVars
  ELSE IF ~jwtVerify(body.resetToken)
    THEN /\ resp' = AuthResponse("resetPassword", 400, "Invalid or expired reset token",
                                 Undefined, body.email)
         /\ UNCHANGED authVars
  ELSE IF body.resetToken.email # body.email
    THEN /\ resp' = AuthResponse("resetPassword", 400, "Invalid reset token",
                                 Undefined, body.email)
         /\ UNCHANGED authVars
  ELSE IF body.email \notin DOMAIN users
    THEN /\ resp' = AuthResponse("resetPassword", 404, "User not found",
                                 Undefined, body.email)
         /\ UNCHANGED authVars
  ELSE IF \/ ~IsDefined(users[body.email].resetPasswordOTP)
          \/ ~IsDefined(users[body.email].resetPasswordOTPExpire)
    THEN /\ resp' = AuthResponse("resetPassword", 400, "Please verify OTP first",
                                 Undefined, body.email)
         /\ UNCHANGED authVars
  ELSE IF now > users[body.email].resetPasswordOTPExpire[1]
    THEN /\ resp' = AuthResponse("resetPassword", 400,
                      "Reset session expired. Please request a new code.",
                      Undefined, body.email)
         /\ UNCHANGED authVars
  ELSE
    LET user == [users[body.email] EXCEPT !.password = Hash(body.newPassword),
                   !.resetPasswordOTP = Undefined, !.resetPasswordOTPExpire = Undefined]
    IN  /\ users' = [users EXCEPT ![body.email] = user]
        /\ tokens' = tokens \cup {generateAuthToken(user)}
        /\ verified' = verified \ {body.email}
        /\ resp' = AuthResponse("resetPassword", 200, "Password reset successful",
                                Some(generateAuthToken(user)), body.email)

(***************************************************************************)
(* router.post('/resend-reset-otp')                                        *)
(***************************************************************************)
PostResendResetOtp(body, otp, delivered) ==
  IF ~isEmail(body.email)
    THEN /\ resp' = AuthResponse("resendResetOtp", 400, "Validation failed",
                                 Undefined, body.email)
         /\ UNCHANGED authVars
  ELSE IF body.email \notin DOMAIN users
    THEN /\ resp' = AuthResponse("resendResetOtp", 200,
                      "If an account exists with that email, a new code has been sent.",
                      Undefined, body.email)
         /\ UNCHANGED authVars
  ELSE
    /\ users' = [users EXCEPT ![body.email] = generatePasswordResetOTP(@, otp)]
    /\ verified' = verified \ {body.email}
    /\ resp' = IF delivered
                 THEN AuthResponse("resendResetOtp", 200,
                        "New password reset code sent successfully", Undefined, body.email)
                 ELSE AuthResponse("resendResetOtp", 500,
                        "Failed to send password reset code", Undefined, body.email)
    /\ UNCHANGED tokens

(***************************************************************************)
(* userSchema isActive: an account is deactivated by the administration,   *)
(* outside the routes.                                                     *)
(***************************************************************************)
Deactivate(email) ==
  /\ email \in DOMAIN users
  /\ users[email].isActive
  /\ users' = [users EXCEPT ![email].isActive = FALSE]
  /\ UNCHANGED <<tokens, verified, resp>>

(***************************************************************************)
(* SpecAuth: one person registers, verifies the e-mail address, logs in    *)
(* and resets the password, with right and wrong codes, tokens and         *)
(* passwords, while time passes and the account may be deactivated; the    *)
(* same requests are sent for an address nobody registered.                *)
(***************************************************************************)
RegisteredEmail == "ann@example.com"

AuthEmails == {RegisteredEmail, "bob@example.com", ""}

RegisterBodies ==
  { [email |-> email, phone |-> "+34 600 000 001", password |-> password] :
      email \in {RegisteredEmail, ""}, password \in {"secret1", "short"} }

OtpInputs == OtpCodes \cup {"123"}

\* a reset token is one the server has signed, or one signed with another secret
ResetTokens ==
  tokens \cup {[email |-> RegisteredEmail, role |-> "user", signed |-> FALSE]}

ResetBodies ==
  { [ email |-> email, resetToken |-> resetToken,
      newPassword |-> newPassword, confirmPassword |-> confirmPassword ] :
      email \in AuthEmails, resetToken \in ResetTokens,
      newPassword \in {"secret2", "short"}, confirmPassword \in {"secret2", "secret3"} }

AuthFrame == UNCHANGED <<orderVars, addressVars, offers, req, tasks>>

Register == \E body \in RegisterBodies, otp \in OtpCodes :
  PostRegister(body, otp) /\ AuthFrame

VerifyOtp == \E email \in AuthEmails, otp \in OtpInputs :
  PostVerifyOtp([email |-> email, otp |-> otp]) /\ AuthFrame

ResendOtp == \E email \in AuthEmails, otp \in OtpCodes, delivered \in BOOLEAN :
  PostResendOtp([email |-> email], otp, delivered) /\ AuthFrame

Login == \E email \in AuthEmails, password \in {"secret1", "secret2", ""} :
  PostLogin([email |-> email, password |-> password]) /\ AuthFrame

ForgotPassword == \E email \in AuthEmails, otp \in OtpCodes, delivered \in BOOLEAN :
  PostForgotPassword([email |-> email], otp, delivered) /\ AuthFrame

VerifyResetOtp == \E email \in AuthEmails, otp \in OtpInputs :
  PostVerifyResetOtp([email |-> email, otp |-> otp]) /\ AuthFrame

ResetPassword == \E body \in ResetBodies :
  PostResetPassword(body) /\ AuthFrame

ResendResetOtp == \E email \in AuthEmails, otp \in OtpCodes, delivered \in BOOLEAN :
  PostResendResetOtp([email |-> email], otp, delivered) /\ AuthFrame

DeactivateAccount == \E email \in AuthEmails :
  Deactivate(email) /\ AuthFrame

NextAuth ==
  \/ Register \/ VerifyOtp \/ ResendOtp \/ Login \/ ForgotPassword
  \/ VerifyResetOtp \/ ResetPassword \/ ResendResetOtp \/ DeactivateAccount \/ Tick

SpecAuth == Init /\ [][NextAuth]_vars

(***************************************************************************)
(* router.patch('/:id/cancel') as the steps between its awaits:            *)
(* Order.findById and the checks on the document it returned;              *)
(* order.cancelOrder; then, for every line, FoodItem.findById and          *)
(* foodItem.updateStock; the answer follows the last line.                 *)
(***************************************************************************)
DoneTask(route, caller, id, code) ==
  [pc |-> "done", route |-> route, caller |-> caller, id |-> id, code |-> code]

FindOrder(t, caller, id, reason) ==
  /\ tasks[t].pc = "idle"
  /\ IF reason = ""
       THEN /\ resp' = Response("cancel", 400, caller, 0, "")
            /\ tasks' = [tasks EXCEPT ![t] = DoneTask("cancel", caller, 0, 400)]
     ELSE IF id \notin 1..Len(orders)
       THEN /\ resp' = Response("cancel", 404, caller, 0, "")
            /\ tasks' = [tasks EXCEPT ![t] = DoneTask("cancel", caller, 0, 404)]
     ELSE IF ~MayCancel(orders[id], caller)
       THEN /\ resp' = Response("cancel", 403, caller, id, "")
            /\ tasks' = [tasks EXCEPT ![t] = DoneTask("cancel", caller, id, 403)]
     ELSE IF ~CanBeCancelled(orders[id])
       THEN /\ resp' = Response("cancel", 400, caller, id, "")
            /\ tasks' = [tasks EXCEPT ![t] = DoneTask("cancel", caller, id, 400)]
     ELSE /\ tasks' = [tasks EXCEPT ![t] =
               [ pc |-> "cancelOrder", route |-> "cancel", caller |-> caller, id |-> id,
                 reason |-> reason, order |-> orders[id], k |-> 1, foodItem |-> Undefined ]]
          /\ resp' = resp
  /\ UNCHANGED <<foodItems, orders, now, posts, ledger>>

SaveCancellation(t) ==
  /\ tasks[t].pc = "cancelOrder"
  /\ orders' = [orders EXCEPT ![tasks[t].id] =
                  cancelOrder(tasks[t].order, tasks[t].reason, CancelledBy(tasks[t].caller))]
  /\ tasks' = [tasks EXCEPT ![t].pc = "findById"]
  /\ UNCHANGED <<foodItems, now, posts, ledger, resp>>

\* the answer of the cancel route, once the loop over the lines has ended
CancelAnswered(t) ==
  /\ resp' = Response("cancel", 200, tasks[t].caller, tasks[t].id, tasks[t].order.status)
  /\ ledger' = [k \in 1..Len(ledger) |->
                  IF k = tasks[t].id THEN [ledger[k] EXCEPT !.restored = @ + 1]
                                     ELSE [ledger[k] EXCEPT !.undisturbed = FALSE]]

FindRestoredItem(t) ==
  /\ tasks[t].pc = "findById" /\ tasks[t].route = "cancel"
  /\ LET foodItemId == tasks[t].order.items[tasks[t].k].foodItem
         last == tasks[t].k + 1 > Len(tasks[t].order.items)
     IN  IF foodItemId \in DOMAIN foodItems
           THEN /\ tasks' = [tasks EXCEPT ![t].pc = "updateStock",
                                          ![t].foodItem = Some(foodItems[foodItemId])]
                /\ UNCHANGED <<resp, ledger>>
           ELSE IF last
             THEN /\ tasks' = [tasks EXCEPT ![t] =
                       DoneTask("cancel", tasks[t].caller, tasks[t].id, 200)]
                  /\ CancelAnswered(t)
             ELSE /\ tasks' = [tasks EXCEPT ![t].k = @ + 1]
                  /\ UNCHANGED <<resp, ledger>>
  /\ UNCHANGED <<foodItems, orders, now, posts>>

SaveRestoredItem(t) ==
  /\ tasks[t].pc = "updateStock" /\ tasks[t].route = "cancel"
  /\ LET item == tasks[t].order.items[tasks[t].k]
         foodItem == DocumentSaved(tasks[t].foodItem[1], foodItems[item.foodItem])
         last == tasks[t].k + 1 > Len(tasks[t].order.items)
     IN  /\ foodItems' = [foodItems EXCEPT
                            ![item.foodItem] = updateStock(foodItem, item.quantity, "add")]
         /\ IF last
              THEN /\ tasks' = [tasks EXCEPT ![t] =
                        DoneTask("cancel", tasks[t].caller, tasks[t].id, 200)]
                   /\ CancelAnswered(t)
              ELSE /\ tasks' = [tasks EXCEPT ![t].k = @ + 1, ![t].pc = "findById"]
                   /\ UNCHANGED <<resp, ledger>>
  /\ UNCHANGED <<orders, now, posts>>

(***************************************************************************)
(* SpecCancelRace: a customer places one order; then two cancel requests   *)
(* for it, of the owner, another customer or an admin, run interleaved at  *)
(* their awaits.                                                           *)
(***************************************************************************)
PlaceFirstOrder == \E items \in Carts :
  /\ posts = 0 /\ IdleTasks
  /\ PostOrder(Owner, Body(items))
  /\ UNCHANGED <<addressVars, offers, req, authVars, tasks>>

CancelReceived == \E t \in TaskIds, caller \in {Owner, Stranger, Admin}, id \in 1..MaxPosts,
                     reason \in {"", "changed my mind"} :
  FindOrder(t, caller, id, reason) /\ UNCHANGED <<addressVars, offers, req, authVars>>

CancellationSaved == \E t \in TaskIds :
  SaveCancellation(t) /\ UNCHANGED <<addressVars, offers, req, authVars>>

RestoredItemRead == \E t \in TaskIds :
  FindRestoredItem(t) /\ UNCHANGED <<addressVars, offers, req, authVars>>

RestoredItemWritten == \E t \in TaskIds :
  SaveRestoredItem(t) /\ UNCHANGED <<addressVars, offers, req, authVars>>

NextCancelRace ==
  PlaceFirstOrder \/ CancelReceived \/ CancellationSaved \/ RestoredItemRead
    \/ RestoredItemWritten

SpecCancelRace == InitRace /\ [][NextCancelRace]_vars

(***************************************************************************)
(* The order-reading routes.  Their answer is                              *)
(*   [route, code, caller, orders]                                         *)
(* with the ids of the orders the answer carries, in the order of the      *)
(* answer.  The orders are numbered in the order of their creation, so     *)
(* sort({ createdAt: -1 }) is the descending order of the ids.             *)
(***************************************************************************)
ReadResponse(route, code, caller, ids) ==
  [route |-> route, code |-> code, caller |-> caller.id, orders |-> ids]

\* a filter of Order.find: the fields it names, each with the value asked for
NoFilter == [userId |-> Undefined, status |-> Undefined]

Matches(order, filter) ==
  /\ IsDefined(filter.userId) => order.userId = filter.userId[1]
  /\ IsDefined(filter.status) => order.status = filter.status[1]

\* Order.find(filter).sort({ createdAt: -1 }): the ids that match, newest first
RECURSIVE FindSorted(_, _)
FindSorted(filter, n) ==
  IF n = 0 THEN <<>>
  ELSE IF Matches(orders[n], filter) THEN <<n>> \o FindSorted(filter, n - 1)
  ELSE FindSorted(filter, n - 1)

\* .limit(parseInt(limit)).skip(skip)
Paginate(ids, skip, limit) ==
  SubSeq(ids, skip + 1, IF skip + limit < Len(ids) THEN skip + limit ELSE Len(ids))

ValidListQuery(query) ==
  /\ query.page >= 1
  /\ query.limit >= 1 /\ query.limit <= 50
  /\ IsDefined(query.status) => query.status[1] \in OrderStatuses

\* router.get('/getall'): the query is built and passed to countDocuments only
GetAllOrders(caller, query) ==
  /\ IF ~ValidListQuery(query)
       THEN resp' = ReadResponse("getall", 400, caller, <<>>)
       ELSE LET found == FindSorted(NoFilter, Len(orders))
            IN  resp' = ReadResponse("getall", 200, caller,
                          Paginate(found, (query.page - 1) * query.limit, query.limit))
  /\ UNCHANGED <<foodItems, orders, now, posts, ledger>>

\* router.get('/')
GetOrders(caller, query) ==
  /\ IF ~ValidListQuery(query)
       THEN resp' = ReadResponse("list", 400, caller, <<>>)
       ELSE LET found == FindSorted([userId |-> Some(caller.id), status |-> query.status],
                                     Len(orders))
            IN  resp' = ReadResponse("list", 200, caller,
                          Paginate(found, (query.page - 1) * query.limit, query.limit))
  /\ UNCHANGED <<foodItems, orders, now, posts, ledger>>

\* router.get('/:id')
GetOrder(caller, id) ==
  /\ IF id \notin 1..Len(orders)
       THEN resp' = ReadResponse("get", 404, caller, <<>>)
     ELSE IF orders[id].userId # caller.id /\ caller.role \notin {"admin", "manager"}
       THEN resp' = ReadResponse("get", 403, caller, <<>>)
     ELSE resp' = ReadResponse("get", 200, caller, <<id>>)
  /\ UNCHANGED <<foodItems, orders, now, posts, ledger>>

(***************************************************************************)
(* SpecRead: two customers place orders, an admin moves them through       *)
(* their statuses, and customers, an admin and a manager read orders       *)
(* through the three routes.                                               *)
(***************************************************************************)
ListQueries ==
  { [page |-> page, limit |-> limit, status |-> status] :
      page \in {0, 1, 2}, limit \in {1, 10}, status \in {Undefined, Some("pending")} }

PlaceOrderBy == \E caller \in Customers, items \in {CartA, CartB} :
  PostOrder(caller, Body(items)) /\ UNCHANGED <<addressVars, offers, req, authVars, tasks>>

ConfirmOrder == \E id \in 1..MaxPosts :
  PatchStatus(Admin, id, "confirmed") /\ UNCHANGED <<addressVars, offers, req, authVars, tasks>>

ReadAllOrders == \E caller \in Callers, query \in ListQueries :
  GetAllOrders(caller, query) /\ UNCHANGED <<addressVars, offers, req, authVars, tasks>>

ReadOrders == \E caller \in Callers, query \in ListQueries :
  GetOrders(caller, query) /\ UNCHANGED <<addressVars, offers, req, authVars, tasks>>

ReadOrder == \E caller \in Callers, id \in 1..MaxPosts :
  GetOrder(caller, id) /\ UNCHANGED <<addressVars, offers, req, authVars, tasks>>

NextRead == PlaceOrderBy \/ ConfirmOrder \/ ReadAllOrders \/ ReadOrders \/ ReadOrder

SpecRead == Init /\ [][NextRead]_vars

C2StockNeverNegative == \A f \in ItemIds : foodItems[f].stockQuantity >= 0

\* an order for 3 of f1 was just created when fewer than 3 were in stock
C2Witness ==
  /\ resp.route = "create" /\ resp.code = 201
  /\ orders[resp.id].items[1].foodItem = "f1"
  /\ orders[resp.id].items[1].quantity = 3
  /\ ledger[resp.id].stockBefore["f1"] < 3
  /\ foodItems["f1"].stockQuantity = 0

(***************************************************************************)
(* C3: when an order is cancelled for the first time and no other request  *)
(* changed stock since its creation, every line's food item has the stock  *)
(* it had before the order was created; and a cancel request on a          *)
(* delivered, cancelled or refunded order changes no stock.                *)
(***************************************************************************)
C3CancelRestoresStock ==
  [][ /\ ( /\ resp'.route = "cancel" /\ resp'.code = 200
           /\ ledger'[resp'.id].undisturbed
           /\ ledger'[resp'.id].restored = 1 )
         => \A k \in 1..Len(orders'[resp'.id].items) :
              foodItems'[orders'[resp'.id].items[k].foodItem].stockQuantity
                = ledger'[resp'.id].stockBefore[orders'[resp'.id].items[k].foodItem]
      /\ ( /\ resp'.route = "cancel" /\ resp'.id \in 1..Len(orders)
           /\ orders[resp'.id].status \in {"delivered", "cancelled", "refunded"} )
         => foodItems' = foodItems
    ]_vars

(***************************************************************************)
(* C4: a rating request succeeds only for the owning user, on a delivered  *)
(* order that has no rating yet, so at most once per order; every other    *)
(* rating request is rejected and changes no order; and nothing but a      *)
(* successful rating request changes an order's rating.                    *)
(***************************************************************************)
C4RatingOnce ==
  [][ /\ resp'.route = "rating" =>
           IF resp'.code = 200
             THEN /\ ~IsDefined(orders[resp'.id].rating)
                  /\ orders[resp'.id].status = "delivered"
                  /\ orders[resp'.id].userId = resp'.caller
                  /\ IsDefined(orders'[resp'.id].rating)
             ELSE orders' = orders
      /\ \A i \in 1..Len(orders) :
           orders'[i].rating # orders[i].rating =>
             resp'.route = "rating" /\ resp'.code = 200 /\ resp'.id = i
    ]_vars

\* the owner's second rating of a delivered, rated order was just rejected
C4Witness ==
  /\ resp.route = "rating" /\ resp.code = 400 /\ resp.id \in 1..Len(orders)
  /\ orders[resp.id].userId = resp.caller
  /\ orders[resp.id].status = "delivered"
  /\ IsDefined(orders[resp.id].rating)

(***************************************************************************)
(* C5 as stated: an order starts pending and every status change is an     *)
(* edge of the graph pending -> confirmed -> preparing -> ready ->         *)
(* out-for-delivery -> delivered, or leads from a non-terminal status to   *)
(* cancelled.                                                              *)
(***************************************************************************)
TerminalStatuses == {"delivered", "cancelled", "refunded"}

StatusGraph ==
  { <<"pending", "confirmed">>, <<"confirmed", "preparing">>, <<"preparing", "ready">>,
    <<"ready", "out-for-delivery">>, <<"out-for-delivery", "delivered">> }
  \cup { <<s, "cancelled">> : s \in OrderStatuses \ TerminalStatuses }

C5StatusGraph ==
  [][ /\ Len(orders') > Len(orders) => orders'[Len(orders')].status = "pending"
      /\ \A i \in 1..Len(orders) :
           orders'[i].status # orders[i].status =>
             <<orders[i].status, orders'[i].status>> \in StatusGraph
    ]_vars

(***************************************************************************)
(* C5 as amended: an order starts pending; the cancel route moves an order *)
(* to cancelled, and only from a status that is not delivered, cancelled   *)
(* or refunded; every other status change is made by the status route for  *)
(* an admin or a manager, which sets whichever of the seven statuses the   *)
(* request names, whatever the order's status was.                         *)
(***************************************************************************)
RoleOf(callerId) == (CHOOSE c \in Callers : c.id = callerId).role

C5StatusChanges ==
  [][ /\ Len(orders') > Len(orders) => orders'[Len(orders')].status = "pending"
      /\ \A i \in 1..Len(orders) :
           orders'[i].status # orders[i].status =>
             /\ resp'.code = 200 /\ resp'.id = i
             /\ \/ /\ resp'.route = "cancel"
                   /\ orders[i].status \notin TerminalStatuses
                   /\ orders'[i].status = "cancelled"
                \/ /\ resp'.route = "status"
                   /\ RoleOf(resp'.caller) \in {"admin", "manager"}
                   /\ orders'[i].status \in OrderStatuses
    ]_vars

\* a status update has just moved a delivered order back to pending
C5Witness ==
  /\ resp.route = "status" /\ resp.code = 200
  /\ resp.was = "delivered"
  /\ orders[resp.id].status = "pending"

(***************************************************************************)
(* C6: once set, actualDeliveryTime never changes; it is set by a status   *)
(* update to delivered, to the time of that update, and an order whose     *)
(* status was just updated to delivered has it set.                        *)
(***************************************************************************)
C6DeliveryTimeSetOnce ==
  [][ \A i \in 1..Len(orders) :
        LET before == orders[i].actualDeliveryTime
            after == orders'[i].actualDeliveryTime
            delivering == /\ resp'.route = "status" /\ resp'.code = 200 /\ resp'.id = i
                          /\ orders'[i].status = "delivered"
        IN  /\ IsDefined(before) => after = before
            /\ (~IsDefined(before) /\ IsDefined(after)) => delivering /\ after = Some(now')
            /\ delivering => IsDefined(after)
    ]_vars

\* an order was delivered, moved to another status and has just been delivered again
C6Witness ==
  /\ resp.route = "status" /\ resp.code = 200
  /\ resp.was # "delivered"
  /\ orders[resp.id].status = "delivered"
  /\ IsDefined(orders[resp.id].actualDeliveryTime)
  /\ orders[resp.id].actualDeliveryTime[1] < now

(***************************************************************************)
(* C7: every user has at most one address with isDefault = true.           *)
(***************************************************************************)
DefaultsOf(userId) == {a \in AddressesOf(userId) : a.isDefault}

C7AtMostOneDefault ==
  \A c \in Customers : Cardinality(DefaultsOf(c.id)) <= 1

(***************************************************************************)
(* C8: after deleteAddress has removed a user's default address and the    *)
(* user has an address left, exactly one of the user's addresses is        *)
(* default; after setDefaultAddress(a) has succeeded, a is the one default *)
(* address of its user and the addresses of other users are as before.     *)
(***************************************************************************)
C8DefaultAfterDeleteAndSet ==
  [][ /\ ( /\ resp'.route = "deleteAddress" /\ resp'.code = 200 /\ resp'.was = "default"
           /\ \E a \in addresses' : a.userId = resp'.caller )
         => Cardinality({a \in addresses' : a.userId = resp'.caller /\ a.isDefault}) = 1
      /\ ( resp'.route = "setDefaultAddress" /\ resp'.code = 200 )
         => /\ {a.id : a \in {b \in addresses' : b.userId = resp'.caller /\ b.isDefault}}
                 = {resp'.id}
            /\ {a \in addresses' : a.userId # resp'.caller}
                 = {a \in addresses : a.userId # resp'.caller}
    ]_vars

(***************************************************************************)
(* C9: two stored orders whose requests named the same items, quantities   *)
(* and options, the same coupon and the same delivery fee, and differed at *)
(* most in the prices attached to the selections, have the same unit       *)
(* prices, the same subtotal and the same total.                           *)
(***************************************************************************)
OptionNames(list) == SeqMap(LAMBDA e : e.name, list)

LineIdentity(line) ==
  [ foodItem |-> line.foodItem,
    quantity |-> line.quantity,
    size |-> IF IsDefined(line.selectedMealSize) THEN Some(line.selectedMealSize[1].name) ELSE Undefined,
    extras |-> OptionNames(line.selectedExtras),
    addons |-> OptionNames(line.selectedAddons) ]

OrderIdentity(order) ==
  [ items |-> SeqMap(LineIdentity, order.items),
    couponCode |-> order.couponCode,
    deliveryFee |-> order.deliveryFee,
    deliveryType |-> order.deliveryType ]

C9ClientPricesIgnored ==
  \A i, j \in 1..Len(orders) :
    OrderIdentity(orders[i]) = OrderIdentity(orders[j]) =>
      /\ \A k \in 1..Len(orders[i].items) :
           orders[i].items[k].unitPrice = orders[j].items[k].unitPrice
      /\ orders[i].subtotal = orders[j].subtotal
      /\ orders[i].total = orders[j].total

(***************************************************************************)
(* C10: on every stored line, unitPrice is the food item's price plus the  *)
(* additional price of the selected size plus the prices of the selected   *)
(* extras and addons, as the line records them (a missing price counts 0), *)
(* and totalPrice = unitPrice * quantity; the subtotal is the sum of the   *)
(* lines' totalPrice.                                                      *)
(***************************************************************************)
RECURSIVE PriceSum(_, _)
PriceSum(list, k) ==
  IF k = 0 THEN 0
  ELSE PriceSum(list, k - 1) + (IF list[k].price = <<>> THEN 0 ELSE list[k].price[1])

RECURSIVE TotalPriceSum(_, _)
TotalPriceSum(items, k) ==
  IF k = 0 THEN 0 ELSE TotalPriceSum(items, k - 1) + items[k].totalPrice

C10LinePrices ==
  \A i \in 1..Len(orders) :
    /\ \A k \in 1..Len(orders[i].items) :
         LET line == orders[i].items[k]
             size == IF line.selectedMealSize = <<>> \/ line.selectedMealSize[1].additionalPrice = <<>>
                       THEN 0 ELSE line.selectedMealSize[1].additionalPrice[1]
         IN  /\ line.unitPrice
                  = foodItems[line.foodItem].price + size
                      + PriceSum(line.selectedExtras, Len(line.selectedExtras))
                      + PriceSum(line.selectedAddons, Len(line.selectedAddons))
             /\ line.totalPrice = line.unitPrice * line.quantity
    /\ orders[i].subtotal = TotalPriceSum(orders[i].items, Len(orders[i].items))

\* the spec's scenario: price 10.00, one extra at 1.50, quantity 2; and an order of two
\* lines, the first with a size, two extras and an addon
C10Witness ==
  /\ \E i \in 1..Len(orders) :
       /\ Len(orders[i].items) = 1
       /\ orders[i].items[1].quantity = 2
       /\ foodItems[orders[i].items[1].foodItem].price = 1000
       /\ orders[i].items[1].selectedExtras = <<Option("cheese", Some(150))>>
       /\ orders[i].items[1].unitPrice = 1150
       /\ orders[i].items[1].totalPrice = 2300
       /\ orders[i].subtotal = 2300
  /\ \E i \in 1..Len(orders) :
       /\ Len(orders[i].items) = 2
       /\ orders[i].items[1].unitPrice = 1500
       /\ orders[i].subtotal = 1500 * orders[i].items[1].quantity + 650

(***************************************************************************)
(* C11: a create request with deliveryType delivery and no delivery        *)
(* address, or with a cash-on-delivery payment method and no COD payment   *)
(* type, is answered 400, creates no order and changes no food item (so no *)
(* stockQuantity and no totalSold); a pickup request without a delivery    *)
(* address whose lines are all available is answered 201.                  *)
(***************************************************************************)
C11RejectedBeforeLines ==
  [][ (resp'.route = "create" /\ IsDefined(req')) =>
        LET body == req'[1]
            noAddress == ~IsDefined(body.deliveryAddress)
            cod == body.paymentMethod \in {"cashOnDelivery", "cash-on-delivery"}
        IN  /\ ( \/ (body.deliveryType = "delivery" /\ noAddress)
                 \/ (cod /\ ~IsDefined(body.codPaymentType)) )
               => /\ resp'.code = 400
                  /\ orders' = orders
                  /\ foodItems' = foodItems
            /\ ( /\ body.deliveryType = "pickup" /\ noAddress /\ ~cod
                 /\ \A k \in 1..Len(body.items) :
                      /\ body.items[k].quantity >= 1
                      /\ body.items[k].foodItem \in ItemIds
                      /\ foodItems[body.items[k].foodItem].isActive )
               => /\ resp'.code = 201
                  /\ Len(orders') = Len(orders) + 1
    ]_vars

\* a delivery request without an address, whose lines would have failed at the second
\* line, was rejected with the stock of the first line's item as it was
C11Witness ==
  /\ resp.route = "create" /\ resp.code = 400 /\ IsDefined(req)
  /\ req[1].deliveryType = "delivery" /\ ~IsDefined(req[1].deliveryAddress)
  /\ req[1].items = CartB
  /\ foodItems["f2"].stockQuantity = 5 /\ foodItems["f2"].totalSold = 0
  /\ posts = 0

(***************************************************************************)
(* C12: a cancel request succeeds only for the order's owning user or a    *)
(* caller with role admin or manager; a cancel request of any other caller *)
(* for an existing order is answered 403, whatever the order's status, and *)
(* no rejected cancel request changes an order or a food item; on success  *)
(* cancellation.cancelledBy is admin exactly when the caller's role is     *)
(* admin or manager, and customer otherwise.                               *)
(***************************************************************************)
C12CancelAuthorization ==
  [][ resp'.route = "cancel" =>
        LET staff == RoleOf(resp'.caller) \in {"admin", "manager"}
        IN  /\ resp'.code = 200 =>
                 /\ orders[resp'.id].userId = resp'.caller \/ staff
                 /\ orders'[resp'.id].status = "cancelled"
                 /\ IsDefined(orders'[resp'.id].cancellation)
                 /\ orders'[resp'.id].cancellation[1].cancelledBy
                      = IF staff THEN "admin" ELSE "customer"
            /\ ( /\ resp'.id \in 1..Len(orders)
                 /\ orders[resp'.id].userId # resp'.caller /\ ~staff )
               => resp'.code = 403
            /\ resp'.code # 200 => orders' = orders /\ foodItems' = foodItems
    ]_vars

\* an order that a manager or admin had cancelled was reopened, and the cancel request
\* of a customer who does not own it has just been rejected
C12Witness ==
  /\ resp.route = "cancel" /\ resp.code = 403 /\ resp.id \in 1..Len(orders)
  /\ orders[resp.id].userId # resp.caller
  /\ orders[resp.id].status = "pending"
  /\ IsDefined(orders[resp.id].cancellation)
  /\ orders[resp.id].cancellation[1].cancelledBy = "admin"

(***************************************************************************)
(* C13: a well-formed coupon validation request is answered as valid (200) *)
(* exactly when an offer with the code exists that is active, whose period *)
(* startDate..endDate contains the current time, whose minimum order       *)
(* amount, when set, is at most the order's subtotal, and whose usage      *)
(* history holds fewer uses by the caller than the per-user limit.  (A     *)
(* step that leaves the time as it is and shows a validation answer is a   *)
(* validation request.)                                                    *)
(***************************************************************************)
C13CouponValidIff ==
  [][ ( /\ resp'.route = "validateCoupon" /\ IsDefined(req') /\ now' = now
        /\ "orderDetails" \in DOMAIN req'[1]
        /\ req'[1].couponCode # "" /\ req'[1].orderDetails.items >= 1 )
      => ( resp'.code = 200
             <=> \E o \in DOMAIN offers :
                   LET offer == offers[o]
                       uses == Cardinality({k \in 1..Len(offer.usageHistory) :
                                              offer.usageHistory[k].user = resp'.caller})
                   IN  /\ offer.couponCode = req'[1].couponCode
                       /\ offer.isActive
                       /\ offer.startDate <= now /\ now <= offer.endDate
                       /\ ( offer.minOrderAmount = <<>>
                            \/ req'[1].orderDetails.subtotal >= offer.minOrderAmount[1] )
                       /\ uses < offer.userUsageLimit )
    ]_vars

\* within its period, the code was refused to a customer who has used it as often as
\* the limit allows, while the order is large enough and the offer active
C13Witness ==
  /\ resp.route = "validateCoupon" /\ resp.code = 400 /\ IsDefined(req)
  /\ "orderDetails" \in DOMAIN req[1]
  /\ req[1].couponCode = "SAVE10" /\ req[1].orderDetails.items >= 1
  /\ req[1].orderDetails.subtotal = 2000
  /\ "o1" \in DOMAIN offers
  /\ offers["o1"].isActive /\ offers["o1"].startDate <= now /\ now <= offers["o1"].endDate
  /\ offers["o1"].userUsageLimit = 2 /\ resp.caller = "u1"
  /\ Len(offers["o1"].usageHistory) = 3

(***************************************************************************)
(* C14: when an order is created with the coupon code of an offer that is  *)
(* active, in its period and satisfied by the subtotal, and is given the   *)
(* discount, the use is appended to that offer's usage history; and an     *)
(* order with the code                                                     *)
(* is given a discount only while the user's earlier discounted orders     *)
(* with the code are fewer than the offer's per-user limit.                *)
(***************************************************************************)
C14RedemptionRecorded ==
  [][ ( /\ resp'.route = "create" /\ resp'.code = 201
        /\ Len(orders') = Len(orders) + 1
        /\ IsDefined(orders'[Len(orders')].couponCode) )
      => LET order == orders'[Len(orders')]
             earlier == {i \in 1..Len(orders) :
                           /\ orders[i].userId = order.userId
                           /\ orders[i].couponCode = order.couponCode
                           /\ orders[i].discount > 0}
         IN  \A o \in DOMAIN offers :
               offers[o].couponCode = order.couponCode[1] =>
                 /\ ( /\ offers[o].isActive
                      /\ offers[o].startDate <= now /\ now <= offers[o].endDate
                      /\ ( offers[o].minOrderAmount = <<>>
                           \/ order.subtotal >= offers[o].minOrderAmount[1] )
                      /\ order.discount > 0 )
                    => offers'[o].usageHistory
                         = Append(offers[o].usageHistory, [user |-> order.userId])
                 /\ order.discount > 0 => Cardinality(earlier) < offers[o].userUsageLimit
    ]_vars

(***************************************************************************)
(* C15: for a valid percentage offer with a maximum discount amount        *)
(* (greater than 0), the price calculateItemDiscount returns, after its    *)
(* rounding to cents, is at least originalPrice - maxDiscountAmount.       *)
(***************************************************************************)
C15PriceFloor ==
  ( /\ resp.route = "calculateItemDiscount"
    /\ req[1].offer.isValid /\ req[1].offer.type = "percentage"
    /\ req[1].offer.maxDiscountAmount # <<>>
    /\ req[1].offer.maxDiscountAmount[1] > 0 )
  => resp.result >= req[1].originalPrice - req[1].offer.maxDiscountAmount[1]

(***************************************************************************)
(* C16 as stated: calculateItemDiscount returns the price unchanged for an *)
(* offer that is not valid; max(0, price - value), so never a negative     *)
(* price, for a fixed-amount offer; exactly half the price for a           *)
(* buy-one-get-one offer; the price unchanged for a free-delivery offer.   *)
(***************************************************************************)
C16ReferenceRule ==
  resp.route = "calculateItemDiscount" =>
    LET price == req[1].originalPrice
        offer == req[1].offer
    IN  /\ ~offer.isValid => resp.result = price
        /\ (offer.isValid /\ offer.type = "fixed-amount") =>
              /\ resp.result = (IF price > offer.value THEN price - offer.value ELSE 0)
              /\ resp.result >= 0
        /\ (offer.isValid /\ offer.type = "buy-one-get-one") => 2 * resp.result = price
        /\ (offer.isValid /\ offer.type = "free-delivery") => resp.result = price

(***************************************************************************)
(* C16 as amended: for an offer that is not valid the price is returned    *)
(* unchanged; for a valid offer the result is a whole number of cents, at  *)
(* most half a cent away from max(0, price - value) for a fixed-amount     *)
(* offer (and never negative), from half the price for a buy-one-get-one   *)
(* offer, and from the price for a free-delivery offer (so equal to a      *)
(* price that is a whole number of cents).  Amounts are in tenths of a     *)
(* cent.                                                                   *)
(***************************************************************************)
WithinHalfACent(result, twiceExact) ==
  /\ result % 10 = 0
  /\ 2 * result - twiceExact <= 10
  /\ twiceExact - 2 * result <= 10

C16RoundedReferenceRule ==
  resp.route = "calculateItemDiscount" =>
    LET price == req[1].originalPrice
        offer == req[1].offer
    IN  /\ ~offer.isValid => resp.result = price
        /\ (offer.isValid /\ offer.type = "fixed-amount") =>
              /\ WithinHalfACent(resp.result,
                                 2 * (IF price > offer.value THEN price - offer.value ELSE 0))
              /\ resp.result >= 0
        /\ (offer.isValid /\ offer.type = "buy-one-get-one") =>
              WithinHalfACent(resp.result, price)
        /\ (offer.isValid /\ offer.type = "free-delivery") =>
              /\ WithinHalfACent(resp.result, 2 * price)
              /\ price % 10 = 0 => resp.result = price

\* a valid buy-one-get-one offer on a price of 9.99, whose half is not a whole number of
\* cents
C16Witness ==
  /\ resp.route = "calculateItemDiscount"
  /\ req[1].offer.isValid /\ req[1].offer.type = "buy-one-get-one"
  /\ req[1].originalPrice = 9990
  /\ 2 * resp.result # 9990

(***************************************************************************)
(* C17: for valid coordinates validateAddress answers canDeliver = true    *)
(* exactly when the distance from the shop is at most 6 km; saveAddress,   *)
(* given an address and valid coordinates, stores a new address with those *)
(* coordinates when that distance is at most 6 km, and otherwise rejects   *)
(* the request and stores nothing.  Distances are in metres.               *)
(***************************************************************************)
ValidCoordinates(body) ==
  /\ body.latitude # <<>> /\ body.longitude # <<>>
  /\ body.latitude[1] \in -900000..900000
  /\ body.longitude[1] \in -1800000..1800000

DistanceFromShop(body) ==
  calculateDistance(SHOP_LAT, SHOP_LNG, body.latitude[1], body.longitude[1])

C17DeliveryRadius ==
  [][ /\ ( resp'.route = "validateAddress" /\ IsDefined(req') /\ ValidCoordinates(req'[1]) )
         => /\ resp'.code = 200
            /\ resp'.canDeliver <=> DistanceFromShop(req'[1]) <= 6000
      /\ ( /\ resp'.route = "saveAddress" /\ IsDefined(req') /\ ValidCoordinates(req'[1])
           /\ req'[1].address # <<>> )
         => IF DistanceFromShop(req'[1]) <= 6000
              THEN /\ resp'.code = 201
                   /\ \E a \in addresses' \ addresses :
                        /\ addresses' = addresses \cup {a}
                        /\ a.userId = resp'.caller
                        /\ a.latitude = req'[1].latitude[1]
                        /\ a.longitude = req'[1].longitude[1]
              ELSE resp'.code = 400 /\ addresses' = addresses
    ]_vars

\* an address at 6 km exactly has just been stored
C17Witness ==
  /\ resp.route = "saveAddress" /\ resp.code = 201 /\ IsDefined(req)
  /\ DistanceFromShop(req[1]) = 6000
  /\ \E a \in addresses : a.id = resp.id /\ a.latitude = 414535 /\ a.longitude = 21909

(***************************************************************************)
(* C18: no step changes the lines (item reference, quantity, selections,   *)
(* unitPrice, totalPrice), the subtotal or the total of an order that      *)
(* exists: not a status update, a cancellation, a rating or a change of a  *)
(* food item's price.                                                      *)
(***************************************************************************)
C18OrderSnapshot ==
  [][ \A i \in 1..Len(orders) :
        /\ Len(orders') >= i
        /\ orders'[i].items = orders[i].items
        /\ orders'[i].subtotal = orders[i].subtotal
        /\ orders'[i].total = orders[i].total
    ]_vars

\* an order was delivered, rated, reopened and cancelled, and the catalog price of the
\* item of its first line is no longer the price the line was computed from
C18Witness ==
  \E i \in 1..Len(orders) :
    /\ IsDefined(orders[i].rating) /\ IsDefined(orders[i].cancellation)
    /\ IsDefined(orders[i].actualDeliveryTime)
    /\ orders[i].status = "cancelled"
    /\ orders[i].items[1].foodItem = "f1"
    /\ orders[i].items[1].unitPrice = 1400
    /\ foodItems["f1"].price = 500

(***************************************************************************)
(* C19: when a create request passes the checks made before the lines and  *)
(* line k is the first that names a missing or inactive food item, the     *)
(* request is answered 400 and no order is created, and the food items are *)
(* left with the decrements of lines 1..k-1: each stockQuantity lowered by *)
(* the quantities of those lines (not below 0) and each totalSold raised   *)
(* by them.                                                                *)
(***************************************************************************)
Unavailable(line) ==
  line.foodItem \notin ItemIds \/ ~foodItems[line.foodItem].isActive

RECURSIVE QuantityBefore(_, _, _)
QuantityBefore(items, k, foodItemId) ==
  IF k <= 1 THEN 0
  ELSE QuantityBefore(items, k - 1, foodItemId)
         + (IF items[k - 1].foodItem = foodItemId THEN items[k - 1].quantity ELSE 0)

C19PartialDecrementStays ==
  [][ ( /\ resp'.route = "create" /\ IsDefined(req')
        /\ ~(req'[1].deliveryType = "delivery" /\ req'[1].deliveryAddress = <<>>)
        /\ ~( req'[1].paymentMethod \in {"cashOnDelivery", "cash-on-delivery"}
              /\ req'[1].codPaymentType = <<>> )
        /\ \E k \in 1..Len(req'[1].items) : Unavailable(req'[1].items[k]) )
      => LET items == req'[1].items
             first == CHOOSE k \in 1..Len(items) :
                        /\ Unavailable(items[k])
                        /\ \A j \in 1..(k - 1) : ~Unavailable(items[j])
         IN  /\ resp'.code = 400
             /\ orders' = orders
             /\ \A f \in ItemIds :
                  LET taken == QuantityBefore(items, first, f)
                  IN  /\ foodItems'[f].totalSold = foodItems[f].totalSold + taken
                      /\ foodItems'[f].stockQuantity
                           = IF foodItems[f].stockQuantity > taken
                               THEN foodItems[f].stockQuantity - taken ELSE 0
                      /\ foodItems'[f].price = foodItems[f].price
                      /\ foodItems'[f].isActive = foodItems[f].isActive
    ]_vars

\* two requests were rejected, one at a third line that names a missing item and one at
\* a second line whose item had been withdrawn; no order exists and the stock of the
\* lines before stays lowered
C19Witness ==
  /\ resp.route = "create" /\ resp.code = 400 /\ IsDefined(req)
  /\ req[1].items = CartA
  /\ ~foodItems["f1"].isActive
  /\ orders = <<>> /\ posts = 2
  /\ foodItems["f1"].totalSold = 1 /\ foodItems["f1"].stockQuantity = 1
  /\ foodItems["f2"].totalSold = 3 /\ foodItems["f2"].stockQuantity = 2

(***************************************************************************)
(* C20: the step a create request takes (the answer, the orders and the    *)
(* food items after it) is also the step the same request takes with any   *)
(* other client total, or with none; and the total of the order it stores  *)
(* is the sum of its lines' totalPrice plus its delivery fee and tax minus *)
(* its discount, whatever total the client sent.                           *)
(***************************************************************************)
ClientTotals == {Undefined, Some(10), Some(1650), Some(3000)}

C20ClientTotalIgnored ==
  [][ (resp'.route = "create" /\ IsDefined(req')) =>
        /\ \A total \in ClientTotals :
             PostOrder(CHOOSE c \in Callers : c.id = resp'.caller,
                       [req'[1] EXCEPT !.total = total])
        /\ resp'.code = 201 =>
             LET order == orders'[resp'.id]
             IN  order.total
                   = TotalPriceSum(order.items, Len(order.items))
                       + order.deliveryFee + order.tax - order.discount
    ]_vars

\* an order priced 16.50 was stored for a request that carried a total of 0.10, after an
\* order for the same cart without a client total
C20Witness ==
  /\ resp.route = "create" /\ resp.code = 201 /\ IsDefined(req)
  /\ req[1].total = Some(10)
  /\ resp.id = 2
  /\ orders[2].total = 1650
  /\ orders[1].total = 1650 /\ orders[1].items = orders[2].items

(***************************************************************************)
(* C21: the stock update of order creation is a read (findById) and a      *)
(* later write (save) with nothing atomic between them.  When two create   *)
(* requests for the same food item have both read the item before either   *)
(* has saved it, the second save overwrites the first: the first decrement *)
(* is lost, totalSold ends lower than initial + q1 + q2, and stockQuantity *)
(* ends higher than max(0, initial - q1 - q2) whenever the second save     *)
(* leaves any stock at all.                                                *)
(***************************************************************************)
SingleLine(t) == tasks[t].pc # "idle" /\ tasks[t].pc # "done" /\ Len(tasks[t].body.items) = 1

Max0(n) == IF n < 0 THEN 0 ELSE n

C21LostDecrement ==
  [][ \A t \in TaskIds :
        LET u == Other(t) IN
        ( /\ SingleLine(t) /\ SingleLine(u)
          /\ tasks[t].pc = "updateStock" /\ tasks[u].pc = "create"
          /\ tasks'[t].pc = "create"
          /\ tasks[t].body.items[1].foodItem = tasks[u].body.items[1].foodItem
          /\ tasks[t].foodItem = tasks[u].foodItem )
        => LET f == tasks[t].body.items[1].foodItem
               initial == tasks[t].foodItem[1]
               q1 == tasks[u].body.items[1].quantity
               q2 == tasks[t].body.items[1].quantity
           IN  /\ foodItems'[f].totalSold = initial.totalSold + q2
               /\ foodItems'[f].totalSold < initial.totalSold + q1 + q2
               /\ foodItems'[f].stockQuantity = Max0(initial.stockQuantity - q2)
               /\ foodItems'[f].stockQuantity > 0
                    => foodItems'[f].stockQuantity > Max0(initial.stockQuantity - q1 - q2)
    ]_vars

\* both requests ordered one f1 out of a stock of two and both orders are stored, yet
\* one unit is still in stock and one unit only is counted as sold
C21Witness ==
  /\ tasks[1].pc = "done" /\ tasks[2].pc = "done"
  /\ Len(orders) = 2
  /\ \A i \in 1..2 : Len(orders[i].items) = 1 /\ orders[i].items[1].foodItem = "f1"
                     /\ orders[i].items[1].quantity = 1
  /\ foodItems["f1"].stockQuantity = 1
  /\ foodItems["f1"].stockQuantity > Max0(2 - 1 - 1)
  /\ foodItems["f1"].totalSold = 1
  /\ foodItems["f1"].totalSold < 0 + 1 + 1

(***************************************************************************)
(* C22: when two set-default requests of the same user for two different   *)
(* addresses have both completed, however their steps were interleaved, at *)
(* most one of the user's addresses is the default.                        *)
(***************************************************************************)
C22AtMostOneDefaultAfterRace ==
  ( /\ tasks[1].pc = "done" /\ tasks[2].pc = "done"
    /\ IsDefined(tasks[1].address) /\ IsDefined(tasks[2].address)
    /\ tasks[1].caller = tasks[2].caller
    /\ tasks[1].address[1].id # tasks[2].address[1].id )
  => Cardinality(DefaultsOf(tasks[1].caller.id)) <= 1

(***************************************************************************)
(* C23: the answer of POST /auth/forgot-password, status code and message, *)
(* is the same whether or not an account exists for the e-mail address:    *)
(* it is the answer the route gives to the same request when the           *)
(* collection has no account.                                              *)
(***************************************************************************)
NoUsers == [e \in {} |-> 0]

C23ForgotPasswordUniform ==
  [][ \A email \in AuthEmails, otp \in OtpCodes, delivered \in BOOLEAN :
        PostForgotPassword([email |-> email], otp, delivered)
        => LET answer == ForgotPasswordAnswer(NoUsers, [email |-> email], delivered)
           IN  resp'.code = answer.code /\ resp'.message = answer.message
    ]_vars

(***************************************************************************)
(* C24: over any sequence of status updates and cancel requests on an      *)
(* order, the quantity added back to the stock of a food item on behalf of *)
(* the order never exceeds the quantity the order's creation took from it: *)
(* an order that was cancelled, reopened by a status update and cancelled  *)
(* again is not restored twice.  The orders looked at are those whose      *)
(* lines were all in stock when they were created, so that creation took   *)
(* the ordered quantity in full.                                           *)
(***************************************************************************)
Ordered(items, foodItemId) == QuantityBefore(items, Len(items) + 1, foodItemId)

C24RestoredAtMostDecremented ==
  \A i \in 1..Len(orders) :
    (\A f \in ItemIds : Ordered(orders[i].items, f) <= ledger[i].stockBefore[f])
    => \A f \in ItemIds :
         ledger[i].restored * Ordered(orders[i].items, f) <= Ordered(orders[i].items, f)

(***************************************************************************)
(* C25: whenever the status of an order becomes 'cancelled', through the   *)
(* cancel route or through a status update to 'cancelled' by an admin or   *)
(* manager, the same request has added every line's quantity back to the   *)
(* stock of the line's food item.                                          *)
(***************************************************************************)
C25CancelledMeansRestored ==
  [][ \A i \in 1..Len(orders) :
        (orders[i].status # "cancelled" /\ orders'[i].status = "cancelled")
        => \A f \in ItemIds :
             foodItems'[f].stockQuantity
               = foodItems[f].stockQuantity + Ordered(orders[i].items, f)
    ]_vars

(***************************************************************************)
(* C26: when two concurrent cancel requests for the same cancellable order *)
(* have both completed, at most one of them has restored stock, and the    *)
(* stock of every line's food item is what the order's creation left plus  *)
(* the ordered quantity, once.                                             *)
(***************************************************************************)
C26ConcurrentCancelRestoresOnce ==
  ( /\ tasks[1].pc = "done" /\ tasks[2].pc = "done"
    /\ Len(orders) = 1
    /\ tasks[1].id = 1 /\ tasks[2].id = 1
    /\ tasks[1].code = 200 \/ tasks[2].code = 200 )
  => /\ ledger[1].restored <= 1
     /\ \A f \in ItemIds :
          foodItems[f].stockQuantity
            = Max0(ledger[1].stockBefore[f] - Ordered(orders[1].items, f))
                + Ordered(orders[1].items, f)

(***************************************************************************)
(* C27: a caller who is neither admin nor manager obtains, through GET     *)
(* /orders, GET /orders/getall and GET /orders/:id, only orders whose      *)
(* owning user is the caller.                                              *)
(***************************************************************************)
C27OwnOrdersOnly ==
  ( /\ resp.route \in {"getall", "list", "get"}
    /\ resp.code = 200
    /\ RoleOf(resp.caller) \notin {"admin", "manager"} )
  => \A k \in 1..Len(resp.orders) : orders[resp.orders[k]].userId = resp.caller

(***************************************************************************)
(* C28: POST /auth/reset-password changes a password only if an earlier    *)
(* verify-reset-otp request succeeded for that account with the reset OTP  *)
(* that is stored now: an OTP that was issued and never verified does not  *)
(* allow the change, and after a successful reset the OTP is gone, so that *)
(* the reset cannot be repeated without a new one.                         *)
(***************************************************************************)
C28ResetNeedsVerifiedOtp ==
  [][ \A body \in ResetBodies :
        (PostResetPassword(body) /\ resp'.code = 200)
        => /\ body.email \in verified
           /\ ~IsDefined(users'[body.email].resetPasswordOTP)
           /\ body.email \notin verified'
    ]_vars

(***************************************************************************)
(* C29: login, verify-otp, verify-reset-otp and reset-password answer with *)
(* a token only for an account that is active and whose e-mail address is  *)
(* verified when the answer is given.                                      *)
(***************************************************************************)
TokenRoutes == {"login", "verifyOtp", "verifyResetOtp", "resetPassword"}

AuthRequest == Login \/ VerifyOtp \/ VerifyResetOtp \/ ResetPassword

C29TokenOnlyForActiveVerified ==
  [][ (AuthRequest /\ resp'.route \in TokenRoutes /\ IsDefined(resp'.token))
      => /\ users'[resp'.email].isActive
         /\ users'[resp'.email].emailVerified
    ]_vars

(***************************************************************************)
(* C30: after any sequence of saveAddress and updateAddress requests,      *)
(* every stored address has valid coordinates and lies within the 6 km     *)
(* delivery radius of the shop; an update that carries only one of         *)
(* latitude and longitude cannot move a stored address out of the radius.  *)
(***************************************************************************)
C30StoredWithinRadius ==
  \A a \in addresses :
    /\ ValidCoordinates([latitude |-> Some(a.latitude), longitude |-> Some(a.longitude)])
    /\ DistanceFromShop([latitude |-> Some(a.latitude), longitude |-> Some(a.longitude)])
         <= MAX_DELIVERY_DISTANCE * 1000

====
